---- MODULE Spec2Model ----
(***************************************************************************)
(* Room registry, turn sessions and turn timers of the chat server         *)
(* (server/src/index.ts, first snapshot, lines 1-1264) and the glare       *)
(* handling of the WebRTC hook (client/src/hooks/useWebRTC.ts, second      *)
(* snapshot, lines 229-666).                                               *)
(*                                                                         *)
(* All identifiers of the program are strings here, as they are in the     *)
(* program: connection ids, user ids, room ids, symbols.  JavaScript's     *)
(* null and undefined are the strings Null and Undef.                      *)
(***************************************************************************)
EXTENDS Integers, Sequences, FiniteSets, TLC

VARIABLES conn, rooms, users, games, timers, peers, chan, ready, collided,
          retries, failures, errors, userSessions, chat

vars == <<conn, rooms, users, games, timers, peers, chan, ready, collided,
          retries, failures, errors, userSessions, chat>>
serverVars == <<conn, rooms, users, games, timers>>
meshVars == <<peers, chan, ready, collided, retries, failures>>
\* the identity registry of the server and the friends page of the two clients
otherVars == <<userSessions, chat>>

-----------------------------------------------------------------------------
(* Bounds of the model *)

\* connection ids available to the model; a connection id is never reused
NSockets == 3
\* connection ids that act in the specification of the room registry alone
NRoomSockets == 2
\* longest member list in the specification of the room registry alone
\* (joins that would grow a list past it are not taken)
MaxMembers == 3
\* longest member list in the specification with sessions
MaxSessionMembers == 2
\* accepted moves per session in the specification with sessions
MaxMoves == 3
\* the capacity create_room gives a room (8 in the source, scaled so that the
\* admission check is reached within MaxMembers)
GroupMaxPlayers == 2
\* the capacity of a lazily created DM_ room
DMMaxPlayers == 20
\* moves are submitted for board indices / positions / columns 0..MaxIndex
MaxIndex == 2
\* ICE candidates a peer object signals after its offer or answer
MaxCandidates == 1
\* connection ids that act in the specification of the voice mesh
NMeshClients == 2
\* the length of the user ids of the friends page
MaxIdLen == 2
\* delayed moves of the scripted opponent outstanding at one time
MaxPendingAI == 2
\* errors of peer objects in one run (SpecLinks)
MaxFailures == 2
\* the pieces each player of Nine Men's Morris places (9 in the source, scaled
\* so that the phases after placing are reached)
MorrisPieces == 4
\* morris_move is submitted for the positions 0..MaxPosition (SpecMorris)
MaxPosition == 7

Null == "null"
Undef == "undefined"
AI == "AI"

SocketName(i) == "s" \o ToString(i)
Sockets == {SocketName(i) : i \in 1..NSockets}
UserIds == {"u1"}
\* what a client may send as userId: a user id, or nothing
UserIdInputs == UserIds \cup {Undef}
GroupRoomIds == {"R1"}
DMRoomIds == {"DM_U1_U2"}
RoomIds == GroupRoomIds \cup DMRoomIds

NoRoom == [absent |-> TRUE]
NoUser == [absent |-> TRUE]
NoGame == [absent |-> TRUE]

-----------------------------------------------------------------------------
(* Helpers on sequences (JavaScript array methods) *)

\* Array.prototype.findIndex, 1-based, 0 when nothing matches
FindIndex(seq, Test(_)) ==
    IF \E i \in 1..Len(seq) : Test(seq[i])
    THEN CHOOSE i \in 1..Len(seq) : Test(seq[i]) /\ \A j \in 1..(i-1) : ~Test(seq[j])
    ELSE 0

\* Array.prototype.splice(i, 1)
Splice(seq, i) == SubSeq(seq, 1, i-1) \o SubSeq(seq, i+1, Len(seq))

\* Array.prototype.filter
Filter(seq, Test(_)) == SelectSeq(seq, Test)

Range(seq) == {seq[i] : i \in 1..Len(seq)}

-----------------------------------------------------------------------------
(* The room registry: create_room, join_room, disconnect *)

\* A ChatUser object.  users[socket.id] and the entry pushed on room.users are
\* one object in the program; cur says that a member record is the object
\* users[id] currently refers to, so that a write through room.users[0] is
\* seen through users[id] exactly when the two are the same object.
ChatUser(s, userId, isHost) ==
    [id |-> s, userId |-> userId, isHost |-> isHost, cur |-> TRUE]

\* The entry of the users table for a ChatUser object
UserEntry(rid, userId, isHost) == [roomId |-> rid, userId |-> userId, isHost |-> isHost]

\* users[s] is overwritten or deleted: every older object of s is no longer users[s]
Detach(rs, s) ==
    [r \in RoomIds |->
        IF rs[r] = NoRoom THEN NoRoom
        ELSE [rs[r] EXCEPT !.users =
                [i \in 1..Len(rs[r].users) |->
                    IF rs[r].users[i].id = s
                    THEN [rs[r].users[i] EXCEPT !.cur = FALSE]
                    ELSE rs[r].users[i]]]]

\* u.userId || u.id
Identity(u) == IF u.userId # Undef THEN u.userId ELSE u.id

\* the set uniqueUserIds of join_room
UniqueUserIds(room) == {Identity(room.users[i]) : i \in 1..Len(room.users)}

IsSocketInRoom(room, s) == \E i \in 1..Len(room.users) : room.users[i].id = s

IsRejoining(room, s, userId) ==
    (userId # Undef /\ userId \in UniqueUserIds(room)) \/ IsSocketInRoom(room, s)

\* the room join_room works on: the one in the table, or a DM_ room created on the spot
JoinTarget(s, rid) ==
    IF rooms[rid] = NoRoom /\ rid \in DMRoomIds
    THEN [hostId |-> s, users |-> <<>>, maxPlayers |-> DMMaxPlayers, isPrivate |-> TRUE]
    ELSE rooms[rid]

\* the admission check of join_room
Admitted(room, s, userId) ==
    IsRejoining(room, s, userId) \/ Cardinality(UniqueUserIds(room)) < room.maxPlayers

\* join_room without the splice of the old record of a rejoining userId
SpliceRejoinKeepsOld(room, userId) == room.users

\* room.users after the removal of the record of a rejoining userId
SpliceRejoin(room, userId) ==
    LET existingUserIndex ==
            IF userId # Undef
            THEN FindIndex(room.users, LAMBDA u : u.userId = userId)
            ELSE 0
    IN  IF existingUserIndex # 0 THEN Splice(room.users, existingUserIndex) ELSE room.users

\* join_room that gives the host flag only to a record that replaces a host's
JoinIsHostCarriedOnly(room, userId) ==
    LET existingUserIndex ==
            IF userId # Undef
            THEN FindIndex(room.users, LAMBDA u : u.userId = userId)
            ELSE 0
    IN  existingUserIndex # 0 /\ room.users[existingUserIndex].isHost

\* the host flag join_room gives the new record
JoinIsHost(room, userId) ==
    LET existingUserIndex ==
            IF userId # Undef
            THEN FindIndex(room.users, LAMBDA u : u.userId = userId)
            ELSE 0
    IN  Len(room.users) = 0
        \/ (existingUserIndex # 0 /\ room.users[existingUserIndex].isHost)

\* io.emit('error', text): the error event sent to every connection
ErrorEventToAll(s, text) == [to |-> "all", text |-> text]

\* socket.emit('error', text): an error event sent to connection s.  errors
\* holds the error events the handler of the latest event has sent.
ErrorEvent(s, text) == [to |-> s, text |-> text]

\* Math.random().toString(36).substring(2, 8).toUpperCase(): the id is taken to
\* be new, that is, nothing in the state of the server refers to it
Unreferenced(rid) ==
    /\ rooms[rid] = NoRoom
    /\ \A q \in Sockets : IF users[q] = NoUser THEN TRUE ELSE users[q].roomId # rid
    /\ \A t \in timers : t.room # rid

CreateRoom(s, userId, rid) ==
    /\ conn[s] = "open"
    /\ rid \in GroupRoomIds
    /\ Unreferenced(rid)
    /\ rooms' = [Detach(rooms, s) EXCEPT ![rid] =
                    [hostId |-> s, users |-> <<ChatUser(s, userId, TRUE)>>,
                     maxPlayers |-> GroupMaxPlayers, isPrivate |-> TRUE]]
    /\ users' = [users EXCEPT ![s] = UserEntry(rid, userId, TRUE)]
    /\ UNCHANGED <<conn, games, timers, meshVars, otherVars>>
    /\ errors' = {}

JoinRoom(s, userId, rid) ==
    /\ conn[s] = "open"
    /\ LET room == JoinTarget(s, rid)
       IN  IF room = NoRoom
           THEN /\ errors' = {ErrorEvent(s, "Room not found")}
                /\ UNCHANGED <<rooms, users>>
           ELSE IF ~Admitted(room, s, userId)
           THEN \* a DM_ room created on the spot stays in the table
                /\ errors' = {ErrorEvent(s, "Room is full")}
                /\ rooms' = [rooms EXCEPT ![rid] = room]
                /\ UNCHANGED users
           ELSE LET isHost == JoinIsHost(room, userId)
                    kept == SpliceRejoin(room, userId)
                IN  /\ errors' = {}
                    /\ rooms' = [Detach([rooms EXCEPT ![rid] = [room EXCEPT !.users = kept]], s)
                                    EXCEPT ![rid].users = @ \o <<ChatUser(s, userId, isHost)>>]
                    /\ users' = [users EXCEPT ![s] = UserEntry(rid, userId, isHost)]
    /\ UNCHANGED <<conn, games, timers, meshVars, otherVars>>

-----------------------------------------------------------------------------
(* Turn timers.  A timer is outstanding from setTimeout / setInterval until  *)
(* it is cleared or (setTimeout) fires.  room.game.timer keeps the handle,   *)
(* 0 standing for an absent (falsy) timer field; a handle that was cleared   *)
(* or has fired stays in the field, as in the program.                       *)

\* state.<field>, undefined when the state object has no such property
Get(state, field) == IF field \in DOMAIN state THEN state[field] ELSE Undef

\* state.winner is truthy (a connection id, 'AI' or 'draw')
HasWinner(state) == "winner" \in DOMAIN state /\ state.winner \notin {Null, Undef}

\* state.draw is truthy
IsDraw(state) == "draw" \in DOMAIN state /\ state.draw

Handles(ts) == {t.h : t \in ts}

\* a handle no timer and no game holds
NewHandle ==
    LET used == Handles(timers) \cup {games[r].timer : r \in {x \in RoomIds : games[x] # NoGame}}
    IN  CHOOSE h \in 1..(Cardinality(used) + 1) : h \notin used

\* clearTimeout / clearInterval (the two are interchangeable in Node.js)
ClearTimer(ts, h) == {t \in ts : t.h # h}

TurnTimer(h, rid, turnPlayerId) ==
    [h |-> h, room |-> rid, kind |-> "turn", turnPlayerId |-> turnPlayerId, orphan |-> FALSE]

TickTimer(h, rid) ==
    [h |-> h, room |-> rid, kind |-> "tick", turnPlayerId |-> Undef, orphan |-> FALSE]

\* the setTimeout of the AI logic of make_move: it captured the room object and
\* the player object of the scripted opponent; its handle is kept nowhere
AITimer(h, rid, symbol) ==
    [h |-> h, room |-> rid, kind |-> "ai", turnPlayerId |-> AI, orphan |-> FALSE,
     symbol |-> symbol]

\* resetGameTimer without the early return for the scripted opponent
resetGameTimerArmsAI(game, ts, rid, turnPlayerId, h) ==
    LET cleared == IF game.timer # 0 THEN ClearTimer(ts, game.timer) ELSE ts
    IN  [game |-> [game EXCEPT !.timer = h],
         timers |-> cleared \cup {TurnTimer(h, rid, turnPlayerId)}]

\* resetGameTimer without the clearTimeout of the handle armed before
resetGameTimerKeepsOld(game, ts, rid, turnPlayerId, h) ==
    IF turnPlayerId = AI
    THEN [game |-> game, timers |-> ts]
    ELSE [game |-> [game EXCEPT !.timer = h],
          timers |-> ts \cup {TurnTimer(h, rid, turnPlayerId)}]

\* resetGameTimer: the game and the timer set afterwards
resetGameTimer(game, ts, rid, turnPlayerId, h) ==
    LET cleared == IF game.timer # 0 THEN ClearTimer(ts, game.timer) ELSE ts
    IN  IF turnPlayerId = AI
        THEN [game |-> game, timers |-> cleared]
        ELSE [game |-> [game EXCEPT !.timer = h],
              timers |-> cleared \cup {TurnTimer(h, rid, turnPlayerId)}]

\* the callback resetGameTimer arms, run on the game of the room it captured
TimeoutCallback(game, turnPlayerId) ==
    IF HasWinner(game.state) \/ IsDraw(game.state)
    THEN game
    ELSE LET players == game.state.players
             w == FindIndex(players, LAMBDA p : p.id # turnPlayerId)
         IN  IF w # 0
             THEN [game EXCEPT !.state =
                     [f \in DOMAIN game.state \cup {"winner", "winReason"} |->
                        CASE f = "winner" -> players[w].id
                          [] f = "winReason" -> "timeout"
                          [] OTHER -> game.state[f]]]
             ELSE game

\* a turn timer fires
TimerFire(t) ==
    /\ t \in timers
    /\ t.kind = "turn"
    /\ timers' = timers \ {t}
    /\ IF t.orphan \/ games[t.room] = NoGame
       THEN \* the room object the callback captured is no longer in the table
            UNCHANGED games
       ELSE games' = [games EXCEPT ![t.room] = TimeoutCallback(@, t.turnPlayerId)]
    /\ UNCHANGED <<conn, rooms, users, meshVars, otherVars>>
    /\ errors' = {}

-----------------------------------------------------------------------------
(* Sessions: start_game, restart_game, end_game *)

GameTypes == {"tictactoe", "pingpong", "stacktower", "ninemenmorris", "connect4"}

\* Array(n).fill(null), indexed from 0 as in the program
EmptyBoard(n) == [i \in 0..(n-1) |-> Null]

\* Array(8).fill(null).map(() => Array(8).fill(null))
EmptyGrid == [r \in 0..7 |-> [c \in 0..7 |-> Null]]

\* { [players[0].id]: 0, [players[1].id]: 0 }
ZeroCounts(players) == [k \in {players[1].id, players[2].id} |-> 0]

\* the players payload the client builds (NineMensMorris.tsx: id, username, symbol)
PlayersPayload(p1, p2) ==
    << [id |-> p1, userId |-> Undef, symbol |-> "X"],
       [id |-> p2, userId |-> Undef, symbol |-> "O"] >>

\* the session start_game builds for each game type, before any timer is armed
InitialGame(gameType, players) ==
    CASE gameType = "tictactoe" ->
            [type |-> gameType, timer |-> 0,
             state |-> [board |-> EmptyBoard(9), turn |-> players[1].id, players |-> players,
                        winner |-> Null, draw |-> FALSE]]
      [] gameType = "pingpong" ->
            [type |-> gameType, timer |-> 0,
             state |-> [players |-> players, lives |-> <<3, 3>>,
                        status |-> "playing", winner |-> Null]]
      [] gameType = "stacktower" ->
            [type |-> gameType, timer |-> 0,
             state |-> [players |-> players, winner |-> Null]]
      [] gameType = "ninemenmorris" ->
            [type |-> gameType, timer |-> 0,
             state |-> [board |-> EmptyBoard(24), turn |-> players[1].id, players |-> players,
                        winner |-> Null, phase |-> "placing",
                        piecesPlaced |-> ZeroCounts(players),
                        piecesOnBoard |-> ZeroCounts(players),
                        selectedPosition |-> -1, millFormed |-> FALSE]]
      [] gameType = "connect4" ->
            [type |-> gameType, timer |-> 0,
             state |-> [board |-> EmptyGrid, turn |-> players[1].id, players |-> players,
                        winner |-> Null]]

\* the permission check of start_game
MayStart(s, rid) ==
    /\ rooms[rid] # NoRoom
    /\ users[s] # NoUser
    /\ users[s].isHost
    /\ users[s].roomId = rid

StartGame(s, rid, gameType, players) ==
    /\ conn[s] = "open"
    /\ IF MayStart(s, rid)
       THEN LET cleared == IF games[rid] # NoGame /\ games[rid].timer # 0
                           THEN ClearTimer(timers, games[rid].timer) ELSE timers
                fresh == InitialGame(gameType, players)
                h == NewHandle
            IN  CASE gameType \in {"tictactoe", "ninemenmorris", "connect4"} ->
                        LET armed == resetGameTimer(fresh, cleared, rid, players[1].id, h)
                        IN  /\ games' = [games EXCEPT ![rid] = armed.game]
                            /\ timers' = armed.timers
                  [] gameType = "pingpong" ->
                        /\ games' = [games EXCEPT ![rid] = [fresh EXCEPT !.timer = h]]
                        /\ timers' = cleared \cup {TickTimer(h, rid)}
                  [] gameType = "stacktower" ->
                        /\ games' = [games EXCEPT ![rid] = fresh]
                        /\ timers' = cleared
       ELSE UNCHANGED <<games, timers>>
    /\ UNCHANGED <<conn, rooms, users, meshVars, otherVars>>
    /\ errors' = {}

\* the permission check of restart_game and end_game
MayRestartOrEnd(s, rid) ==
    /\ rooms[rid] # NoRoom
    /\ users[s] # NoUser
    /\ users[s].isHost

\* restart_game: game players matched to the current room users by userId
ResyncPlayers(room, gamePlayers) ==
    IF Len(room.users) >= 2
    THEN [i \in 1..Len(gamePlayers) |->
            LET found == FindIndex(room.users, LAMBDA u : u.userId = gamePlayers[i].userId)
            IN  IF found # 0
                THEN [gamePlayers[i] EXCEPT !.id = room.users[found].id]
                ELSE gamePlayers[i]]
    ELSE gamePlayers

\* the state restart_game resets, by game type; fields it does not assign keep their value
RestartState(type, state, players) ==
    LET base == [state EXCEPT !.players = players, !.winner = Null]
    IN  CASE type = "tictactoe" ->
                [base EXCEPT !.board = EmptyBoard(9), !.draw = FALSE, !.turn = players[1].id]
          [] type = "pingpong" ->
                [base EXCEPT !.status = "playing", !.lives = <<3, 3>>]
          [] type = "stacktower" -> base
          [] type = "ninemenmorris" ->
                [f \in DOMAIN base \cup {"winReason"} |->
                    CASE f = "board" -> EmptyBoard(24)
                      [] f = "winReason" -> Null
                      [] f = "phase" -> "placing"
                      [] f = "turn" -> players[1].id
                      [] f = "piecesPlaced" -> ZeroCounts(players)
                      [] f = "piecesOnBoard" -> ZeroCounts(players)
                      [] f = "selectedPosition" -> -1
                      [] f = "millFormed" -> FALSE
                      [] OTHER -> base[f]]
          [] type = "connect4" ->
                [base EXCEPT !.board = EmptyGrid, !.turn = players[1].id]

RestartGame(s, rid) ==
    /\ conn[s] = "open"
    /\ IF MayRestartOrEnd(s, rid) /\ games[rid] # NoGame
       THEN LET game == games[rid]
                players == ResyncPlayers(rooms[rid], game.state.players)
                cleared == IF game.timer # 0 THEN ClearTimer(timers, game.timer) ELSE timers
                reset == [game EXCEPT !.state = RestartState(game.type, game.state, players)]
                h == NewHandle
            IN  CASE game.type \in {"tictactoe", "ninemenmorris", "connect4"} ->
                        LET armed == resetGameTimer(reset, cleared, rid, players[1].id, h)
                        IN  /\ games' = [games EXCEPT ![rid] = armed.game]
                            /\ timers' = armed.timers
                  [] game.type = "pingpong" ->
                        /\ games' = [games EXCEPT ![rid] = [reset EXCEPT !.timer = h]]
                        /\ timers' = cleared \cup {TickTimer(h, rid)}
                  [] game.type = "stacktower" ->
                        /\ games' = [games EXCEPT ![rid] = reset]
                        /\ timers' = cleared
       ELSE UNCHANGED <<games, timers>>
    /\ UNCHANGED <<conn, rooms, users, meshVars, otherVars>>
    /\ errors' = {}

EndGame(s, rid) ==
    /\ conn[s] = "open"
    /\ IF MayRestartOrEnd(s, rid) /\ games[rid] # NoGame
       THEN /\ timers' = IF games[rid].timer # 0
                         THEN ClearTimer(timers, games[rid].timer) ELSE timers
            /\ games' = [games EXCEPT ![rid] = NoGame]
       ELSE UNCHANGED <<games, timers>>
    /\ UNCHANGED <<conn, rooms, users, meshVars, otherVars>>
    /\ errors' = {}

-----------------------------------------------------------------------------
(* disconnect *)

\* io.to(room.id).emit('user_left', { id: socket.id }): the notice follows what
\* the server relayed from s before, for every connection of the room whose
\* hook has registered its handlers (no other client listens to it)
UserLeft(ch, s) ==
    [ch EXCEPT ![s] =
        [d \in Sockets |->
            IF /\ d # s /\ conn[d] = "open" /\ d \in ready
               /\ users[d] # NoUser /\ users[d].roomId = users[s].roomId
            THEN Append(ch[s][d], "left") ELSE ch[s][d]]]

\* room.users[0].isHost = true, seen through users[id] when it is the same object
PromoteFirst(us, list) ==
    IF list[1].cur
    THEN [us EXCEPT ![list[1].id] = [@ EXCEPT !.isHost = TRUE]]
    ELSE us

Disconnect(s) ==
    /\ conn[s] = "open"
    /\ conn' = [conn EXCEPT ![s] = "closed"]
    /\ IF users[s] # NoUser /\ rooms[users[s].roomId] # NoRoom
       THEN LET rid == users[s].roomId
                room == rooms[rid]
                left == Filter(room.users, LAMBDA u : u.id # s)
                cleanup == /\ games[rid] # NoGame
                           /\ \E i \in 1..Len(games[rid].state.players) :
                                  games[rid].state.players[i].id = s
                cleared == IF cleanup /\ games[rid].timer # 0
                           THEN ClearTimer(timers, games[rid].timer) ELSE timers
            IN  IF Len(left) = 0
                THEN \* delete rooms[room.id]: the room object, its game and the timers
                     \* that captured it are no longer reachable from the table
                     /\ rooms' = [Detach(rooms, s) EXCEPT ![rid] = NoRoom]
                     /\ games' = [games EXCEPT ![rid] = NoGame]
                     /\ timers' = {IF t.room = rid THEN [t EXCEPT !.orphan = TRUE] ELSE t
                                      : t \in cleared}
                     /\ users' = [users EXCEPT ![s] = NoUser]
                ELSE /\ games' = IF cleanup THEN [games EXCEPT ![rid] = NoGame] ELSE games
                     /\ timers' = cleared
                     /\ IF users[s].isHost
                        THEN /\ rooms' = [Detach(rooms, s) EXCEPT ![rid] =
                                            [room EXCEPT !.hostId = left[1].id,
                                                         !.users = <<[left[1] EXCEPT !.isHost = TRUE]>>
                                                                   \o Tail(left)]]
                             /\ users' = [PromoteFirst(users, left) EXCEPT ![s] = NoUser]
                        ELSE /\ rooms' = [Detach(rooms, s) EXCEPT ![rid].users = left]
                             /\ users' = [users EXCEPT ![s] = NoUser]
       ELSE /\ rooms' = Detach(rooms, s)
            /\ users' = [users EXCEPT ![s] = NoUser]
            /\ UNCHANGED <<games, timers>>
    /\ chan' = IF users[s] # NoUser /\ rooms[users[s].roomId] # NoRoom
               THEN UserLeft(chan, s) ELSE chan
    /\ UNCHANGED <<peers, ready, collided, retries, failures, otherVars>>
    /\ errors' = {}

-----------------------------------------------------------------------------
(* Tic-tac-toe: make_move *)

WinPatterns ==
    << <<0, 1, 2>>, <<3, 4, 5>>, <<6, 7, 8>>,
       <<0, 3, 6>>, <<1, 4, 7>>, <<2, 5, 8>>,
       <<0, 4, 8>>, <<2, 4, 6>> >>

\* board[i], undefined outside the array
Cell(board, i) == IF i \in DOMAIN board THEN board[i] ELSE Undef

\* board[a] && board[a] === board[b] && board[a] === board[c]
Complete(board, pat) ==
    /\ board[pat[1]] # Null
    /\ board[pat[1]] = board[pat[2]]
    /\ board[pat[1]] = board[pat[3]]

\* checkWinner: the symbol of the first complete pattern, 'draw' when no cell is null, else null
checkWinner(board) ==
    IF \E k \in 1..Len(WinPatterns) : Complete(board, WinPatterns[k])
    THEN board[WinPatterns[FindIndex(WinPatterns, LAMBDA pat : Complete(board, pat))][1]]
    ELSE IF \A i \in DOMAIN board : board[i] # Null THEN "draw"
    ELSE Null

\* the greatest and the least element of a finite set of integers
MaxOf(S) == CHOOSE m \in S : \A n \in S : n <= m

MinOf(S) == CHOOSE m \in S : \A n \in S : m <= n

\* humanSymbol = aiSymbol === 'X' ? 'O' : 'X'
HumanSymbol(aiSymbol) == IF aiSymbol = "X" THEN "O" ELSE "X"

\* the cells 0..8 of a board that are null
FreeCells(board) == {i \in 0..8 : board[i] = Null}

\* minimax: the score of a board, the greatest (least) score over the free
\* cells when it is the scripted opponent's (the human's) turn to place
RECURSIVE minimax(_, _, _, _)
minimax(board, depth, isMaximizing, aiSymbol) ==
    LET result == checkWinner(board)
        scores == {minimax([board EXCEPT ![i] = IF isMaximizing THEN aiSymbol
                                                 ELSE HumanSymbol(aiSymbol)],
                           depth + 1, ~isMaximizing, aiSymbol) : i \in FreeCells(board)}
    IN  IF result = aiSymbol THEN 10 - depth
        ELSE IF result = HumanSymbol(aiSymbol) THEN depth - 10
        ELSE IF result = "draw" THEN 0
        ELSE IF isMaximizing THEN MaxOf(scores) ELSE MinOf(scores)

\* getBestMove: 4 on a board without marks, else the first free cell with the
\* strictly greatest score, -1 when no cell is free
getBestMove(board, aiSymbol) ==
    IF \A i \in DOMAIN board : board[i] = Null THEN 4
    ELSE IF FreeCells(board) = {} THEN -1
    ELSE LET score == [i \in FreeCells(board) |->
                          minimax([board EXCEPT ![i] = aiSymbol], 0, FALSE, aiSymbol)]
             top == MaxOf({score[i] : i \in FreeCells(board)})
         IN  MinOf({i \in FreeCells(board) : score[i] = top})

\* The boards that follow those of a table by one placement (a human places
\* 'X' in a cell 0..MaxIndex, the scripted opponent places 'O' in the cell
\* getBestMove returned), each with the value of getBestMove for 'O'
NextBoards(level) ==
    LET boards ==
            UNION {{[e[1] EXCEPT ![i] = "X"] :
                        i \in {j \in 0..MaxIndex : e[1][j] = Null}} : e \in level}
            \cup {[e[1] EXCEPT ![e[2]] = "O"] : e \in {d \in level : d[2] # -1}}
    IN  {<<b, getBestMove(b, "O")>> : b \in boards}

\* getBestMove is computed once for each board with up to three marks that a
\* session against the scripted opponent can show
BestMoves0 == {<<EmptyBoard(9), getBestMove(EmptyBoard(9), "O")>>}

BestMoves1 == NextBoards(BestMoves0)

BestMoves2 == NextBoards(BestMoves1)

BestMoves3 == NextBoards(BestMoves2)

BestMoves == BestMoves0 \cup BestMoves1 \cup BestMoves2 \cup BestMoves3

\* the value of the table entries found for a board, getBestMove itself when
\* the table has none
Lookup(found, board, aiSymbol) ==
    IF found # {} THEN MinOf(found) ELSE getBestMove(board, aiSymbol)

\* getBestMove(board, aiSymbol), looked up where it has been computed
BestMove(board, aiSymbol) ==
    Lookup({e[2] : e \in {d \in BestMoves : d[1] = board /\ aiSymbol = "O"}}, board, aiSymbol)

\* the validation of make_move without the check of the turn
MoveAcceptedAnyTurn(s, rid, index) ==
    /\ rooms[rid] # NoRoom
    /\ games[rid] # NoGame
    /\ ~HasWinner(games[rid].state)
    /\ ~IsDraw(games[rid].state)
    /\ "board" \in DOMAIN games[rid].state
    /\ games[rid].type # "connect4"
    /\ Cell(games[rid].state.board, index) = Null
    /\ \E i \in 1..Len(games[rid].state.players) : games[rid].state.players[i].id = s

\* the validation of make_move without the check of winner and draw
MoveAcceptedAfterOutcome(s, rid, index) ==
    /\ rooms[rid] # NoRoom
    /\ games[rid] # NoGame
    /\ Get(games[rid].state, "turn") = s
    /\ "board" \in DOMAIN games[rid].state
    /\ games[rid].type # "connect4"
    /\ Cell(games[rid].state.board, index) = Null
    /\ \E i \in 1..Len(games[rid].state.players) : games[rid].state.players[i].id = s

\* the validation of make_move: the move is executed
MoveAccepted(s, rid, index) ==
    /\ rooms[rid] # NoRoom
    /\ games[rid] # NoGame
    /\ ~HasWinner(games[rid].state)
    /\ ~IsDraw(games[rid].state)
    /\ Get(games[rid].state, "turn") = s
    /\ "board" \in DOMAIN games[rid].state
    \* game.board[index] !== null: a row of the connect4 grid is never null
    /\ games[rid].type # "connect4"
    /\ Cell(games[rid].state.board, index) = Null
    /\ \E i \in 1..Len(games[rid].state.players) : games[rid].state.players[i].id = s

MakeMove(s, rid, index) ==
    /\ conn[s] = "open"
    /\ IF MoveAccepted(s, rid, index)
       THEN LET game == games[rid]
                players == game.state.players
                me == FindIndex(players, LAMBDA p : p.id = s)
                board == [game.state.board EXCEPT ![index] = players[me].symbol]
                winnerSymbol == checkWinner(board)
                placed == [game EXCEPT !.state.board = board]
            IN  IF winnerSymbol = players[me].symbol
                THEN /\ games' = [games EXCEPT ![rid] = [placed EXCEPT !.state.winner = s]]
                     /\ timers' = IF game.timer # 0 THEN ClearTimer(timers, game.timer)
                                                     ELSE timers
                ELSE IF winnerSymbol = "draw"
                THEN /\ games' = [games EXCEPT ![rid] =
                                    [placed EXCEPT !.state =
                                        [f \in DOMAIN placed.state \cup {"draw"} |->
                                            IF f = "draw" THEN TRUE ELSE placed.state[f]]]]
                     /\ timers' = IF game.timer # 0 THEN ClearTimer(timers, game.timer)
                                                     ELSE timers
                ELSE LET nextIdx == (me % Len(players)) + 1
                         turn == players[nextIdx].id
                         armed == resetGameTimer([placed EXCEPT !.state.turn = turn],
                                                 timers, rid, turn, NewHandle)
                     IN  /\ games' = [games EXCEPT ![rid] = armed.game]
                         \* AI logic: the move of the scripted opponent is scheduled
                         /\ timers' = IF turn = AI
                                      THEN armed.timers \cup
                                           {AITimer(NewHandle, rid, players[nextIdx].symbol)}
                                      ELSE armed.timers
       ELSE UNCHANGED <<games, timers>>
    /\ UNCHANGED <<conn, rooms, users, meshVars, otherVars>>
    /\ errors' = {}

\* the callback of the AI logic of make_move, run on the game now held by the
\* room object it captured, bestMove being the cell getBestMove returned: the
\* game and the timer set afterwards
AICallback(game, ts, rid, aiSymbol, h, bestMove) ==
    IF HasWinner(game.state) \/ IsDraw(game.state) \/ bestMove = -1
    THEN [game |-> game, timers |-> ts]
    ELSE LET board == [game.state.board EXCEPT ![bestMove] = aiSymbol]
             w == checkWinner(board)
             placed == [game EXCEPT !.state.board = board]
             cleared == IF game.timer # 0 THEN ClearTimer(ts, game.timer) ELSE ts
             players == game.state.players
             next == (FindIndex(players, LAMBDA p : p.id = AI) % Len(players)) + 1
         IN  IF w = aiSymbol
             THEN [game |-> [placed EXCEPT !.state.winner = AI], timers |-> cleared]
             ELSE IF w = "draw"
             THEN [game |-> [placed EXCEPT !.state.draw = TRUE], timers |-> cleared]
             ELSE resetGameTimer([placed EXCEPT !.state.turn = players[next].id],
                                 ts, rid, players[next].id, h)

\* the delayed move of the scripted opponent fires (tic-tac-toe sessions)
AIMove(t) ==
    /\ t \in timers
    /\ t.kind = "ai"
    /\ IF t.orphan \/ games[t.room] = NoGame
       THEN \* the room object the callback captured is no longer in the table,
            \* or it has no game
            /\ timers' = timers \ {t}
            /\ UNCHANGED games
       ELSE /\ games[t.room].type = "tictactoe"
            /\ \E after \in {AICallback(games[t.room], timers \ {t}, t.room, t.symbol, NewHandle,
                                         BestMove(games[t.room].state.board, t.symbol))} :
                  /\ games' = [games EXCEPT ![t.room] = after.game]
                  /\ timers' = after.timers
    /\ UNCHANGED <<conn, rooms, users, meshVars, otherVars>>
    /\ errors' = {}

-----------------------------------------------------------------------------
(* Connect 4: connect4_move *)

\* the lowest empty row of a column, -1 when the column is full
RowToPlace(board, column) ==
    IF \E r \in 0..7 : board[r][column] = Null
    THEN CHOOSE r \in 0..7 : board[r][column] = Null /\ \A q \in (r+1)..7 : board[q][column] # Null
    ELSE -1

Dirs == << <<0, 1>>, <<1, 0>>, <<1, 1>>, <<1, -1>> >>

\* the cells of `player` reached from (row, col) in direction sign * d, at most 3, stopping at the first miss
RECURSIVE Run(_, _, _, _, _, _, _)
Run(board, row, col, d, sign, player, i) ==
    LET r == row + sign * d[1] * i
        c == col + sign * d[2] * i
    IN  IF i < 4 /\ r \in 0..7 /\ c \in 0..7 /\ board[r][c] = player
        THEN 1 + Run(board, row, col, d, sign, player, i + 1)
        ELSE 0

\* checkWin: some direction holds 4 or more in a row through (row, col)
checkWin(board, row, col, player) ==
    \E k \in 1..Len(Dirs) :
        1 + Run(board, row, col, Dirs[k], 1, player, 1)
          + Run(board, row, col, Dirs[k], -1, player, 1) >= 4

\* the validation of connect4_move: the piece is placed
Connect4Accepted(s, rid, column) ==
    /\ rooms[rid] # NoRoom
    /\ games[rid] # NoGame
    /\ games[rid].type = "connect4"
    /\ ~HasWinner(games[rid].state)
    /\ games[rid].state.turn = s
    /\ column >= 0 /\ column < 8
    /\ RowToPlace(games[rid].state.board, column) # -1

Connect4Move(s, rid, column) ==
    /\ conn[s] = "open"
    /\ IF Connect4Accepted(s, rid, column)
       THEN LET game == games[rid]
                row == RowToPlace(game.state.board, column)
                board == [game.state.board EXCEPT ![row][column] = s]
                placed == [game EXCEPT !.state.board = board]
                opp == FindIndex(game.state.players, LAMBDA p : p.id # s)
            IN  IF checkWin(board, row, column, s)
                THEN /\ games' = [games EXCEPT ![rid] = [placed EXCEPT !.state.winner = s]]
                     /\ timers' = IF game.timer # 0 THEN ClearTimer(timers, game.timer)
                                                     ELSE timers
                ELSE IF \A r \in 0..7 : \A c \in 0..7 : board[r][c] # Null
                THEN /\ games' = [games EXCEPT ![rid] = [placed EXCEPT !.state.winner = "draw"]]
                     /\ timers' = IF game.timer # 0 THEN ClearTimer(timers, game.timer)
                                                     ELSE timers
                ELSE \* opponent.id of an absent opponent throws: the handler is not completed
                     /\ opp # 0
                     /\ LET turn == game.state.players[opp].id
                            armed == resetGameTimer([placed EXCEPT !.state.turn = turn],
                                                    timers, rid, turn, NewHandle)
                        IN  /\ games' = [games EXCEPT ![rid] = armed.game]
                            /\ timers' = armed.timers
       ELSE UNCHANGED <<games, timers>>
    /\ UNCHANGED <<conn, rooms, users, meshVars, otherVars>>
    /\ errors' = {}

-----------------------------------------------------------------------------
(* Nine Men's Morris: morris_move *)

Mills ==
    << <<0, 1, 2>>, <<2, 3, 4>>, <<4, 5, 6>>, <<6, 7, 0>>,
       <<8, 9, 10>>, <<10, 11, 12>>, <<12, 13, 14>>, <<14, 15, 8>>,
       <<16, 17, 18>>, <<18, 19, 20>>, <<20, 21, 22>>, <<22, 23, 16>>,
       <<1, 9, 17>>, <<3, 11, 19>>, <<5, 13, 21>>, <<7, 15, 23>> >>

\* adjacency[i] is Adjacency[i + 1]
Adjacency ==
    << {1, 7}, {0, 2, 9}, {1, 3}, {2, 4, 11}, {3, 5}, {4, 6, 13}, {5, 7}, {0, 6, 15},
       {9, 15}, {1, 8, 10, 17}, {9, 11}, {3, 10, 12, 19}, {11, 13}, {5, 12, 14, 21},
       {13, 15}, {7, 8, 14, 23},
       {17, 23}, {9, 16, 18}, {17, 19}, {11, 18, 20}, {19, 21}, {13, 20, 22},
       {21, 23}, {15, 16, 22} >>

checkMill(board, pos, playerId) ==
    \E k \in 1..Len(Mills) :
        /\ pos \in Range(Mills[k])
        /\ \A q \in Range(Mills[k]) : board[q] = playerId

\* isInMill that finds no piece in a mill
isInMillNever(board, pos) == FALSE

isInMill(board, pos) ==
    /\ Cell(board, pos) \notin {Null, Undef}
    /\ checkMill(board, pos, board[pos])

allPiecesInMills(board, playerId) ==
    \A i \in 0..23 : board[i] = playerId => isInMill(board, i)

hasValidMoves(state, playerId) ==
    IF state.piecesOnBoard[playerId] = 3
    THEN \E i \in 0..23 : state.board[i] = Null
    ELSE \E i \in 0..23 :
            /\ state.board[i] = playerId
            /\ \E adj \in Adjacency[i + 1] : state.board[adj] = Null

hasRemovablePieces(board, opponentId) ==
    \E i \in 0..23 :
        /\ board[i] = opponentId
        /\ (~isInMill(board, i) \/ allPiecesInMills(board, opponentId))

\* the validation of morris_move up to the lookup of the player
MorrisAccepted(s, rid) ==
    /\ rooms[rid] # NoRoom
    /\ games[rid] # NoGame
    /\ games[rid].type = "ninemenmorris"
    /\ ~HasWinner(games[rid].state)
    /\ games[rid].state.turn = s
    /\ \E i \in 1..Len(games[rid].state.players) : games[rid].state.players[i].id = s

\* the turn passes to the opponent: turn is set and resetGameTimer is called
PassTurn(st, opp) == [state |-> [st EXCEPT !.turn = opp], rearm |-> TRUE]

Stay(st) == [state |-> st, rearm |-> FALSE]

\* after a piece was placed, moved or flown to pos: removal, or the turn passes
AfterMill(st, pos, s, opp, phaseIfPassed) ==
    IF checkMill(st.board, pos, s) /\ hasRemovablePieces(st.board, opp)
    THEN Stay([st EXCEPT !.phase = "removing", !.millFormed = TRUE])
    ELSE PassTurn([st EXCEPT !.phase = phaseIfPassed], opp)

\* the removing branch without the exception for an opponent whose pieces
\* are all in mills
RemovalAcceptedOutsideMills(board, position, opp) ==
    /\ Cell(board, position) = opp
    /\ ~isInMill(board, position)

\* the removing branch removes the piece at position
RemovalAccepted(board, position, opp) ==
    /\ Cell(board, position) = opp
    /\ (~isInMill(board, position) \/ allPiecesInMills(board, opp))

\* the phase branches of morris_move: the state and whether the timer was re-armed
MorrisPhase(st, s, opp, position) ==
    CASE st.phase = "removing" ->
            IF RemovalAccepted(st.board, position, opp)
            THEN LET onBoard == [st.piecesOnBoard EXCEPT ![opp] = @ - 1]
                     phase == IF st.piecesPlaced[s] < MorrisPieces \/ st.piecesPlaced[opp] < MorrisPieces
                              THEN "placing"
                              ELSE IF onBoard[s] = 3 \/ onBoard[opp] = 3
                              THEN "flying"
                              ELSE "moving"
                 IN  PassTurn([st EXCEPT !.board[position] = Null,
                                         !.piecesOnBoard = onBoard,
                                         !.millFormed = FALSE,
                                         !.phase = phase], opp)
            ELSE Stay(st)
      [] st.phase = "placing" ->
            LET placed == [st EXCEPT !.board[position] = s,
                                     !.piecesPlaced[s] = @ + 1,
                                     !.piecesOnBoard[s] = @ + 1]
                phase == IF placed.piecesPlaced[s] >= MorrisPieces /\ placed.piecesPlaced[opp] >= MorrisPieces
                         THEN "moving" ELSE placed.phase
            IN  AfterMill(placed, position, s, opp, phase)
      [] st.phase = "moving" ->
            IF st.selectedPosition = -1
            THEN IF Cell(st.board, position) = s
                 THEN Stay([st EXCEPT !.selectedPosition = position])
                 ELSE Stay(st)
            ELSE IF Cell(st.board, position) = Null
            THEN IF position \in Adjacency[st.selectedPosition + 1]
                 THEN LET moved == [st EXCEPT !.board[position] = s,
                                              !.board[st.selectedPosition] = Null,
                                              !.selectedPosition = -1]
                          phase == IF moved.piecesOnBoard[s] = 3 THEN "flying" ELSE moved.phase
                      IN  AfterMill(moved, position, s, opp, phase)
                 ELSE Stay(st)
            ELSE IF Cell(st.board, position) = s
            THEN Stay([st EXCEPT !.selectedPosition = position])
            ELSE Stay(st)
      [] st.phase = "flying" ->
            IF st.selectedPosition = -1
            THEN IF Cell(st.board, position) = s
                 THEN Stay([st EXCEPT !.selectedPosition = position])
                 ELSE Stay(st)
            ELSE IF Cell(st.board, position) = Null
            THEN LET moved == [st EXCEPT !.board[position] = s,
                                         !.board[st.selectedPosition] = Null,
                                         !.selectedPosition = -1]
                 IN  AfterMill(moved, position, s, opp, moved.phase)
            ELSE IF Cell(st.board, position) = s
            THEN Stay([st EXCEPT !.selectedPosition = position])
            ELSE Stay(st)
      [] OTHER -> Stay(st)

\* the win / draw check at the end of morris_move: "" when no outcome is recorded
MorrisOutcome(st, s, opp) ==
    IF st.phase \notin {"placing", "removing"}
    THEN IF st.piecesOnBoard[opp] < 3 THEN "win"
         ELSE IF ~hasValidMoves(st, opp) THEN "draw"
         ELSE ""
    ELSE ""

WithOutcome(st, s, outcome) ==
    CASE outcome = "win" -> [st EXCEPT !.winner = s]
      [] outcome = "draw" ->
            [f \in DOMAIN st \cup {"winReason"} |->
                CASE f = "winner" -> "draw"
                  [] f = "winReason" -> "stalemate"
                  [] OTHER -> st[f]]
      [] OTHER -> st

MorrisMove(s, rid, position) ==
    /\ conn[s] = "open"
    /\ IF MorrisAccepted(s, rid)
       THEN LET game == games[rid]
                st == game.state
                oppIdx == FindIndex(st.players, LAMBDA p : p.id # s)
            IN  IF st.phase = "placing" /\ Cell(st.board, position) # Null
                THEN \* position occupied: return
                     UNCHANGED <<games, timers>>
                ELSE \* opponent.id of an absent opponent throws: the handler is not completed
                     /\ oppIdx # 0
                     /\ LET opp == st.players[oppIdx].id
                            step == MorrisPhase(st, s, opp, position)
                            armed == IF step.rearm
                                     THEN resetGameTimer([game EXCEPT !.state = step.state],
                                                         timers, rid, opp, NewHandle)
                                     ELSE [game |-> [game EXCEPT !.state = step.state],
                                           timers |-> timers]
                            outcome == MorrisOutcome(step.state, s, opp)
                        IN  /\ games' = [games EXCEPT ![rid] =
                                           [armed.game EXCEPT !.state = WithOutcome(@, s, outcome)]]
                            /\ timers' = IF outcome # "" /\ armed.game.timer # 0
                                         THEN ClearTimer(armed.timers, armed.game.timer)
                                         ELSE armed.timers
       ELSE UNCHANGED <<games, timers>>
    /\ UNCHANGED <<conn, rooms, users, meshVars, otherVars>>
    /\ errors' = {}

-----------------------------------------------------------------------------
(* Ping pong: the tick interval (updatePingPong).  The ball's flight is not   *)
(* modelled: a tick either scores against one side or does not.              *)

\* the side a tick scores against (a tick that scores against nobody changes nothing modelled)
TickOutcomes == {"left", "right"}

\* updatePingPong looks the room up by id in the table on every tick
PingPongTick(t, outcome) ==
    /\ t \in timers
    /\ t.kind = "tick"
    /\ rooms[t.room] # NoRoom
    /\ games[t.room] # NoGame
    /\ games[t.room].type = "pingpong"
    /\ games[t.room].state.status = "playing"
    /\ LET game == games[t.room]
           side == IF outcome = "left" THEN 1 ELSE 2
           lives == [game.state.lives EXCEPT ![side] = @ - 1]
           ended == lives[side] <= 0
           after == IF ended
                    THEN [game EXCEPT !.state.lives = lives, !.state.status = "ended",
                                      !.state.winner = game.state.players[3 - side].id]
                    ELSE [game EXCEPT !.state.lives = lives]
       IN  /\ games' = [games EXCEPT ![t.room] = after]
           /\ timers' = IF ended THEN ClearTimer(timers, game.timer) ELSE timers
    /\ UNCHANGED <<conn, rooms, users, meshVars, otherVars>>
    /\ errors' = {}

-----------------------------------------------------------------------------
(* The voice mesh of a room: the useWebRTC hook of every client and the      *)
(* relay of webrtc_ready and signal by the server.                           *)
(* peers[c][d] holds the records of peersRef.current of client c with peerID *)
(* d, in the order of the list (find and findIndex see the first of them)    *)
(* (the hook keeps at most one per peerID); chan[c][d] holds the messages    *)
(* the server relayed from c to d that d has not handled yet, in order;      *)
(* ready holds the clients whose handlers are registered; collided holds     *)
(* <<c, d>> once c has logged 'Collision detected with d'; retries holds the *)
(* reconnection timers (setTimeout, 3000 ms) that have not fired yet;        *)
(* failures counts the errors the peer objects have reported.                *)

NoPeer == [absent |-> TRUE]

\* peersRef.current.find(p => p.peerID === id), on the records with that id
find(list) == IF list = <<>> THEN NoPeer ELSE list[1]

\* a filter that removes nothing
FilterPeerKeeps(list) == list

\* peersRef.current = peersRef.current.filter(p => p.peerID !== id), on the
\* records with that id
FilterPeer(list) == <<>>

\* peersRef.current.push(peerObj), on the records with the id of peerObj
PushPeer(list, peerObj) == Append(list, peerObj)

\* the signals a SimplePeer object emits: an initiator its offer, a responder
\* its answer to the offer it was created with, then its ICE candidates
Candidates == [i \in 1..MaxCandidates |-> "candidate"]

\* createPeer: { initiator: true }, pushed with connectionState 'connecting'.
\* remote says that the peer object has the description of the other side,
\* connected that it has emitted 'connect', ice is the iceConnectionState of its
\* RTCPeerConnection ("new" stands for 'new' and 'checking', "connected" for
\* 'connected' and 'completed').
InitiatorPeer ==
    [isInitiator |-> TRUE, destroyed |-> FALSE, out |-> <<"offer">> \o Candidates,
     connectionState |-> "connecting", remote |-> FALSE,
     connected |-> FALSE, ice |-> "new"]

\* addPeer: { initiator: false }, then peer.signal(incomingSignal)
ResponderPeer(kind) ==
    [isInitiator |-> FALSE, destroyed |-> FALSE,
     out |-> IF kind = "offer" THEN <<"answer">> \o Candidates ELSE <<>>,
     connectionState |-> "connecting", remote |-> kind = "offer",
     connected |-> FALSE, ice |-> "new"]

\* peer.signal(signal) on an existing peer object: an offer is answered, an
\* answer gives an initiator the description of the other side
Signalled(item, kind) ==
    IF kind = "offer" /\ ~item.isInitiator
    THEN [item EXCEPT !.out = @ \o <<"answer">>]
    ELSE IF kind = "answer" /\ item.isInitiator
    THEN [item EXCEPT !.remote = TRUE]
    ELSE item

\* a reconnection timer of client c for peer d, set by the error handler of a
\* peer object made by createPeer ("init") or by addPeer ("recv"); same says
\* that the record of c for d still holds the peer object that failed.  Timers
\* that agree in all four are one element: they act alike, and the second of
\* two finds what the first left ("init" timers of one pair are never two at a
\* time, a "recv" timer changes nothing when it fires)
Retry(c, d, kind) == [c |-> c, d |-> d, kind |-> kind, same |-> TRUE]

\* the record of c for d was removed or got another peer object
Replaced(rs, c, d) ==
    {IF r.c = c /\ r.d = d THEN [r EXCEPT !.same = FALSE] ELSE r : r \in rs}

\* socket.id < senderId on connection ids: the ids of the model are ordered
\* as their numbers are
IdLess(a, b) ==
    \E i \in 1..NSockets, j \in 1..NSockets :
        a = SocketName(i) /\ b = SocketName(j) /\ i < j

\* socket.broadcast.to(u.roomId): the other connections in the room of c
Audience(c) ==
    IF users[c] = NoUser THEN {}
    ELSE {d \in Sockets \ {c} :
            conn[d] = "open" /\ users[d] # NoUser /\ users[d].roomId = users[c].roomId}

\* the hook of client c got its stream: it emits webrtc_ready, which the server
\* relays to the room, and registers its handlers
ClientReady(c) ==
    /\ conn[c] = "open"
    /\ users[c] # NoUser
    /\ c \notin ready
    /\ ready' = ready \cup {c}
    /\ chan' = [chan EXCEPT ![c] =
                   [d \in Sockets |-> IF d \in Audience(c)
                                      THEN Append(chan[c][d], "ready") ELSE chan[c][d]]]
    /\ errors' = {}
    /\ UNCHANGED <<serverVars, otherVars, peers, collided, retries>>
    /\ UNCHANGED failures

\* the recorded states a record can have at the end of the handler that pushed
\* it in place of item.  item.peer.destroy() makes a peer object that is not
\* destroyed emit 'close', inside destroy() or in a microtask after the
\* handler, as the version of simple-peer has it; in a microtask, its handler
\* runs updatePeerState(id, 'disconnected') when the record with that id is
\* the new one
PushedStates(item) ==
    IF item # NoPeer /\ ~item.destroyed
    THEN {"connecting", "disconnected"}
    ELSE {"connecting"}

\* the record with the recorded state st
InState(peerObj, st) == [peerObj EXCEPT !.connectionState = st]

\* socket.on('webrtc_ready') of client c for payload.id = d
OnWebrtcReady(c, d) ==
    /\ chan[d][c] # <<>>
    /\ Head(chan[d][c]) = "ready"
    /\ chan' = [chan EXCEPT ![d][c] = Tail(@)]
    /\ IF c \in ready /\ peers[c][d] = <<>>
       THEN peers' = [peers EXCEPT ![c][d] = PushPeer(@, InitiatorPeer)]
       ELSE UNCHANGED peers
    /\ UNCHANGED <<serverVars, otherVars, errors, ready, collided, retries>>
    /\ UNCHANGED failures

\* a relay that keeps the signal for a target that is not connected
RelayToClosedToo(ch, c, d, signal) == [ch EXCEPT ![c][d] = Append(@, signal)]

\* socket.on('signal') of the server: io.to(targetId).emit('signal', { senderId:
\* socket.id, signal }).  Only a connected socket is in the room of its id.
Relay(ch, c, d, signal) ==
    IF conn[d] = "open" THEN [ch EXCEPT ![c][d] = Append(@, signal)] ELSE ch

\* peer.on('signal') of the peer object of c for d: socket.emit('signal'),
\* relayed by the server to d
EmitSignal(c, d) ==
    /\ conn[c] = "open"
    /\ peers[c][d] # <<>>
    /\ ~peers[c][d][1].destroyed
    /\ peers[c][d][1].out # <<>>
    /\ peers' = [peers EXCEPT ![c][d][1].out = Tail(@)]
    /\ chan' = Relay(chan, c, d, Head(peers[c][d][1].out))
    /\ errors' = {}
    /\ UNCHANGED <<serverVars, otherVars, ready, collided, retries>>
    /\ UNCHANGED failures

\* a collision branch in which nobody surrenders
SurrendersNever(c, d) == FALSE

\* the tie-break with the comparison turned around
SurrendersLarger(c, d) == IdLess(d, c)

\* the collision branch of the signal handler of c surrenders to d
Surrenders(c, d) == IdLess(c, d)

\* socket.on('signal') of client c for payload.senderId = d
OnSignal(c, d) ==
    /\ chan[d][c] # <<>>
    /\ Head(chan[d][c]) \notin {"ready", "left"}
    /\ chan' = [chan EXCEPT ![d][c] = Tail(@)]
    /\ LET kind == Head(chan[d][c])
           item == find(peers[c][d])
           collision == item # NoPeer /\ item.isInitiator /\ kind = "offer"
       IN  IF c \notin ready
           THEN \* no handler registered yet
                UNCHANGED <<peers, collided, retries>>
           ELSE /\ collided' = IF collision THEN collided \cup {<<c, d>>} ELSE collided
                /\ IF collision /\ ~Surrenders(c, d)
                   THEN \* 'I am larger, ignoring their offer'
                        UNCHANGED <<peers, retries>>
                   ELSE IF ~collision /\ item # NoPeer /\ ~item.destroyed
                   THEN /\ peers' = [peers EXCEPT ![c][d][1] = Signalled(item, kind)]
                        /\ UNCHANGED retries
                   ELSE /\ \E st \in PushedStates(item) :
                              peers' = [peers EXCEPT ![c][d] =
                                          PushPeer(FilterPeer(@),
                                                   InState(ResponderPeer(kind), st))]
                        /\ retries' = Replaced(retries, c, d)
    /\ UNCHANGED <<serverVars, otherVars, errors, ready>>
    /\ UNCHANGED failures

\* socket.on('user_left') of client c for payload.id = x
OnUserLeft(c, x) ==
    /\ chan[x][c] # <<>>
    /\ Head(chan[x][c]) = "left"
    /\ chan' = [chan EXCEPT ![x][c] = Tail(@)]
    /\ IF c \in ready
       THEN /\ peers' = [peers EXCEPT ![c][x] = FilterPeer(@)]
            /\ retries' = Replaced(retries, c, x)
       ELSE UNCHANGED <<peers, retries>>
    /\ UNCHANGED <<serverVars, otherVars, errors, ready, collided>>
    /\ UNCHANGED failures

\* the peer objects of c and d for each other are live, one made by createPeer
\* and one by addPeer, and each has the description of the other
Negotiated(c, d) ==
    /\ peers[c][d] # <<>> /\ peers[d][c] # <<>>
    /\ ~peers[c][d][1].destroyed /\ ~peers[d][c][1].destroyed
    /\ peers[c][d][1].remote /\ peers[d][c][1].remote
    /\ peers[c][d][1].isInitiator # peers[d][c][1].isInitiator

\* peer.on('connect') of the peer object of c for d, once the negotiation with
\* the peer object of d is complete and while its connection is not lost:
\* updatePeerState(d, 'connected')
PeerConnect(c, d) ==
    /\ Negotiated(c, d)
    /\ ~peers[c][d][1].connected
    /\ peers[c][d][1].ice \in {"new", "connected"}
    /\ peers' = [peers EXCEPT ![c][d][1] =
                    [@ EXCEPT !.connectionState = "connected", !.connected = TRUE]]
    /\ UNCHANGED <<serverVars, otherVars, errors, chan, ready, collided, retries>>
    /\ UNCHANGED failures

\* the changes of iceConnectionState of an RTCPeerConnection that has both
\* descriptions: a connection that was lost ('disconnected') may come back
IceChanges ==
    {<<"new", "connected">>, <<"new", "failed">>, <<"connected", "disconnected">>,
     <<"disconnected", "connected">>, <<"disconnected", "failed">>}

\* peer._pc.oniceconnectionstatechange of the peer object of c for d:
\* 'failed' and 'disconnected' are recorded as 'failed', 'connected' and
\* 'completed' as 'connected'
IceStateChange(c, d, to) ==
    /\ Negotiated(c, d)
    /\ <<peers[c][d][1].ice, to>> \in IceChanges
    /\ peers' = [peers EXCEPT ![c][d][1] =
                    [@ EXCEPT !.ice = to,
                              !.connectionState =
                                 IF to \in {"failed", "disconnected"}
                                 THEN "failed" ELSE "connected"]]
    /\ UNCHANGED <<serverVars, otherVars, errors, chan, ready, collided, retries>>
    /\ UNCHANGED failures

\* peer.on('error') of the peer object of c for d (the object is destroyed when
\* it reports an error): updatePeerState(d, 'failed'), and the reconnection
\* timer is set
PeerError(c, d) ==
    /\ peers[c][d] # <<>>
    /\ ~peers[c][d][1].destroyed
    /\ peers' = [peers EXCEPT ![c][d][1] =
                    [@ EXCEPT !.connectionState = "failed", !.destroyed = TRUE]]
    /\ retries' = retries \cup
                    {Retry(c, d, IF peers[c][d][1].isInitiator THEN "init" ELSE "recv")}
    /\ UNCHANGED <<serverVars, otherVars, errors, chan, ready, collided>>
    /\ failures' = failures + 1

\* peer.on('close') of the destroyed peer object of c for d:
\* updatePeerState(d, 'disconnected')
PeerClose(c, d) ==
    /\ peers[c][d] # <<>>
    /\ peers[c][d][1].destroyed
    /\ peers[c][d][1].connectionState # "disconnected"
    /\ peers' = [peers EXCEPT ![c][d][1].connectionState = "disconnected"]
    /\ UNCHANGED <<serverVars, otherVars, errors, chan, ready, collided, retries>>
    /\ UNCHANGED failures

\* a retry that also leaves a replacement in place that is connected
RetrySkippedIfHealthy(r) ==
    /\ peers[r.c][r.d] # <<>>
    /\ peers[r.c][r.d][1].connectionState \in {"connecting", "connected"}
    /\ ~r.same

\* currentPeer && currentPeer.connectionState === 'connecting' &&
\* currentPeer.peer !== peer: 'Reconnection already in progress. Skipping.'
RetrySkipped(r) ==
    /\ peers[r.c][r.d] # <<>>
    /\ peers[r.c][r.d][1].connectionState = "connecting"
    /\ ~r.same

\* the reconnection timer of a peer object made by createPeer fires
\* (streamRef.current is set once the hook has its stream, and stays set)
RetryFire(r) ==
    /\ r \in retries
    /\ r.kind = "init"
    /\ IF RetrySkipped(r)
       THEN /\ retries' = retries \ {r}
            /\ UNCHANGED peers
       ELSE \* the current record, if any, is destroyed and removed, and a new
            \* initiator is pushed
            /\ \E st \in PushedStates(find(peers[r.c][r.d])) :
                  peers' = [peers EXCEPT ![r.c][r.d] =
                              PushPeer(FilterPeer(@), InState(InitiatorPeer, st))]
            /\ retries' = Replaced(retries \ {r}, r.c, r.d)
    /\ UNCHANGED <<serverVars, otherVars, errors, chan, ready, collided>>
    /\ UNCHANGED failures

\* The server registers no handler for 'request_reconnect' (its signalling
\* handlers are webrtc_ready, signal and the call events): the event of c for
\* target d is dropped
RelayReconnect(ch, c, d) == ch

\* the reconnection timer of a peer object made by addPeer fires:
\* socket.emit('request_reconnect', { targetId: d })
RecvRetryFire(r) ==
    /\ r \in retries
    /\ r.kind = "recv"
    /\ retries' = retries \ {r}
    /\ chan' = RelayReconnect(chan, r.c, r.d)
    /\ errors' = {}
    /\ UNCHANGED <<serverVars, otherVars, peers, ready, collided>>
    /\ UNCHANGED failures

\* socket.on('request_reconnect') of client c for requesterId = d.  No message
\* of this kind is ever relayed to a client, so no specification takes this step.
OnRequestReconnect(c, d) ==
    /\ chan[d][c] # <<>>
    /\ Head(chan[d][c]) = "reconnect"
    /\ chan' = [chan EXCEPT ![d][c] = Tail(@)]
    /\ IF c \in ready /\ ~(peers[c][d] # <<>> /\ peers[c][d][1].connectionState = "connecting")
       THEN /\ \E st \in PushedStates(find(peers[c][d])) :
                  peers' = [peers EXCEPT ![c][d] =
                              PushPeer(FilterPeer(@), InState(InitiatorPeer, st))]
            /\ retries' = Replaced(retries, c, d)
       ELSE UNCHANGED <<peers, retries>>
    /\ UNCHANGED <<serverVars, otherVars, errors, ready, collided>>
    /\ UNCHANGED failures

-----------------------------------------------------------------------------
(* The identity registry: register_session *)

\* the user ids of the registry
SessionUserIds == {"u1", "u2"}

\* what a client may send as userId: a user id, nothing, or the empty string
SessionInputs == SessionUserIds \cup {Undef, ""}

\* if (userId): undefined and the empty string are falsy
Truthy(userId) == userId \notin {Undef, ""}

\* register_session that replaces the whole table by the one new mapping
RegisteredAlone(us, s, userId) ==
    IF Truthy(userId) THEN [v \in DOMAIN us |-> IF v = userId THEN s ELSE Undef] ELSE us

\* userSessions[userId] = socket.id
Registered(us, s, userId) ==
    IF Truthy(userId) THEN [us EXCEPT ![userId] = s] ELSE us

RegisterSession(s, userId) ==
    /\ conn[s] = "open"
    /\ userSessions' = Registered(userSessions, s, userId)
    /\ errors' = {}
    /\ UNCHANGED <<serverVars, meshVars, chat>>

-----------------------------------------------------------------------------
(* The friends page: the room id of a chat between two users (startChat), and  *)
(* the id join_room makes of it.  A string is the sequence of its UTF-16 code  *)
(* units here, so that sort() and toUpperCase() do what they do in the program *)

\* the code units of the ids of the model: 'A', 'a', 'b'
Alphabet == {65, 97, 98}

Strings(n) == UNION {[1..k -> Alphabet] : k \in 0..n}

\* the user ids the two parties may have
ChatIds == Strings(MaxIdLen)

Min(a, b) == IF a < b THEN a ELSE b

\* x < y on strings, by code units
StrLess(x, y) ==
    \E k \in 1..(Min(Len(x), Len(y)) + 1) :
        /\ \A j \in 1..(k-1) : x[j] = y[j]
        /\ IF k <= Len(x) /\ k <= Len(y) THEN x[k] < y[k]
           ELSE k > Len(x) /\ k <= Len(y)

\* the pair in the order it was given
SortPairUnsorted(x, y) == <<x, y>>

\* [x, y].sort()
SortPair(x, y) == IF StrLess(y, x) THEN <<y, x>> ELSE <<x, y>>

\* `dm_${ids[0]}_${ids[1]}`
DeriveRoomId(userId, friendId) ==
    LET ids == SortPair(userId, friendId)
    IN  <<100, 109, 95>> \o ids[1] \o <<95>> \o ids[2]

\* roomId.toUpperCase()
ToUpperCase(str) ==
    [i \in 1..Len(str) |-> IF str[i] \in 97..122 THEN str[i] - 32 ELSE str[i]]

\* canonicalRoomId.startsWith('DM_')
StartsWithDM(str) == Len(str) >= 3 /\ SubSeq(str, 1, 3) = <<68, 77, 95>>

Parties == {"A", "B"}

\* user.id and friendId on the friends page of each party
UserIdOf(party) == IF party = "A" THEN chat.a ELSE chat.b
FriendIdOf(party) == IF party = "A" THEN chat.b ELSE chat.a

\* startChat of a party: navigate to /room/<roomId>.  url is the room id of the
\* page of each party, the empty string before the party has opened the chat.
StartChat(party) ==
    /\ chat.url[party] = <<>>
    /\ UserIdOf(party) # <<>>
    /\ FriendIdOf(party) # <<>>
    /\ chat' = [chat EXCEPT !.url[party] = DeriveRoomId(UserIdOf(party), FriendIdOf(party))]
    /\ UNCHANGED <<serverVars, meshVars, errors, userSessions>>

\* join_room with the room id of the page: joined is the key of the room record
\* the join resolves to (rooms[canonicalRoomId], created on the spot for a DM_
\* id); no room is created in another way here, so any other id is not found
JoinChat(party) ==
    /\ chat.url[party] # <<>>
    /\ chat.joined[party] = <<>>
    /\ ~chat.notFound[party]
    /\ LET canonicalRoomId == ToUpperCase(chat.url[party])
       IN  IF StartsWithDM(canonicalRoomId)
           THEN chat' = [chat EXCEPT !.joined[party] = canonicalRoomId]
           ELSE chat' = [chat EXCEPT !.notFound[party] = TRUE]
    /\ UNCHANGED <<serverVars, meshVars, errors, userSessions>>

-----------------------------------------------------------------------------
(* The server *)

\* io.on('connection'): a new connection id
Connect(s) ==
    /\ conn[s] = "fresh"
    \* connection ids are interchangeable: they are taken in order
    /\ \A i \in 1..NSockets : \A j \in 1..(i-1) :
          s = SocketName(i) => conn[SocketName(j)] # "fresh"
    /\ conn' = [conn EXCEPT ![s] = "open"]
    /\ UNCHANGED <<rooms, users, games, timers, meshVars, otherVars>>
    /\ errors' = {}

InitServer ==
    /\ errors = {}
    /\ conn = [s \in Sockets |-> "fresh"]
    /\ rooms = [r \in RoomIds |-> NoRoom]
    /\ users = [s \in Sockets |-> NoUser]
    /\ games = [r \in RoomIds |-> NoGame]
    /\ timers = {}

InitMesh ==
    /\ peers = [c \in Sockets |-> [d \in Sockets |-> <<>>]]
    /\ chan = [c \in Sockets |-> [d \in Sockets |-> <<>>]]
    /\ ready = {}
    /\ collided = {}
    /\ retries = {}
    /\ failures = 0

NoChat == [a |-> <<>>, b |-> <<>>,
           url |-> [p \in Parties |-> <<>>], joined |-> [p \in Parties |-> <<>>],
           notFound |-> [p \in Parties |-> FALSE]]

InitOther ==
    /\ userSessions = [u \in SessionUserIds |-> Undef]
    /\ chat = NoChat

Init == InitServer /\ InitMesh /\ InitOther

\* the ids the client offers as players: the members it was sent
MemberIds(rid) ==
    IF rooms[rid] = NoRoom THEN {}
    ELSE {rooms[rid].users[i].id : i \in 1..Len(rooms[rid].users)}

\* the member list of room rid holds at most n records after the step
Within(rid, n) == IF rooms'[rid] = NoRoom THEN TRUE ELSE Len(rooms'[rid].users) <= n

\* the cells of a board (array or grid) that are not null
Marks(board) ==
    Cardinality({i \in DOMAIN board : board[i] \notin {Null, Undef}})

GridMarks(board) ==
    Cardinality({rc \in (0..7) \X (0..7) : board[rc[1]][rc[2]] # Null})

\* the session of room rid has taken fewer than MaxMoves moves
MovesLeft(rid) ==
    /\ games[rid] # NoGame
    /\ "board" \in DOMAIN games[rid].state
    /\ IF games[rid].type = "connect4"
       THEN GridMarks(games[rid].state.board) < MaxMoves
       ELSE Marks(games[rid].state.board) < MaxMoves

\* the userId the client of each connection sends in the specification with
\* sessions: s1 and s2 are two connections of one user, every other one is a
\* guest without a user id
UserOf(s) == IF s \in {SocketName(1), SocketName(2)} THEN "u1" ELSE Undef

RoomSockets == {SocketName(i) : i \in 1..NRoomSockets}

MeshClients == {SocketName(i) : i \in 1..NMeshClients}

\* the second player of the payload: another member, or the scripted opponent
\* in a game type that has no scripted moves on the server
SecondPlayers(rid, gameType) ==
    MemberIds(rid) \cup (IF gameType = "pingpong" THEN {AI} ELSE {})

NextRooms ==
    \/ \E s \in RoomSockets : Connect(s)
    \/ \E s \in RoomSockets, u \in UserIdInputs, r \in RoomIds : CreateRoom(s, u, r)
    \/ \E s \in RoomSockets, u \in UserIdInputs, r \in RoomIds :
          JoinRoom(s, u, r) /\ Within(r, MaxMembers)
    \/ \E s \in RoomSockets : Disconnect(s)

SpecRooms == Init /\ [][NextRooms]_vars

\* a connection stays with the room it entered first (the client joins one room
\* per page load); other rooms are reached only by restart_game and end_game
Fresh(s, rid) == IF users[s] = NoUser THEN TRUE ELSE users[s].roomId = rid

\* no other room has a session (one session at a time keeps the state space small)
OnlySession(rid) == \A q \in RoomIds \ {rid} : games[q] = NoGame

Next ==
    \/ \E s \in Sockets : Connect(s)
    \/ \E s \in Sockets, r \in RoomIds : Fresh(s, r) /\ CreateRoom(s, UserOf(s), r)
    \/ \E s \in Sockets, r \in RoomIds :
          Fresh(s, r) /\ JoinRoom(s, UserOf(s), r) /\ Within(r, MaxSessionMembers)
    \/ \E s \in Sockets : Disconnect(s)
    \/ \E s \in Sockets, r \in RoomIds, g \in GameTypes :
          \E p1 \in MemberIds(r), p2 \in SecondPlayers(r, g) :
             p1 # p2 /\ OnlySession(r) /\ StartGame(s, r, g, PlayersPayload(p1, p2))
    \/ \E s \in Sockets, r \in RoomIds : RestartGame(s, r)
    \/ \E s \in Sockets, r \in RoomIds : EndGame(s, r)
    \/ \E s \in Sockets, r \in RoomIds, i \in 0..MaxIndex :
          MovesLeft(r) /\ MakeMove(s, r, i)
    \/ \E s \in Sockets, r \in RoomIds, c \in 0..MaxIndex :
          MovesLeft(r) /\ Connect4Move(s, r, c)
    \/ \E s \in Sockets, r \in RoomIds, p \in 0..MaxIndex :
          MovesLeft(r) /\ MorrisMove(s, r, p)
    \/ \E t \in timers : TimerFire(t)
    \/ \E t \in timers, o \in TickOutcomes : PingPongTick(t, o)

Spec == Init /\ [][Next]_vars

\* the delayed moves of the scripted opponent that are outstanding
PendingAI == Cardinality({t \in timers : t.kind = "ai"})

\* the second player of a tic-tac-toe payload: another member or the scripted
\* opponent
OpponentsOf(rid) == MemberIds(rid) \cup {AI}

\* tic-tac-toe sessions against another member or the scripted opponent, with
\* restarts, replacements, ends, departures and rejoins under a new connection
NextAI ==
    \/ \E s \in RoomSockets : Connect(s)
    \/ \E s \in RoomSockets, r \in GroupRoomIds : Fresh(s, r) /\ CreateRoom(s, UserOf(s), r)
    \/ \E s \in RoomSockets, r \in GroupRoomIds :
          Fresh(s, r) /\ JoinRoom(s, UserOf(s), r) /\ Within(r, MaxSessionMembers)
    \/ \E s \in RoomSockets : Disconnect(s)
    \/ \E s \in RoomSockets, r \in GroupRoomIds :
          \E p1 \in MemberIds(r), p2 \in OpponentsOf(r) :
             p1 # p2 /\ StartGame(s, r, "tictactoe", PlayersPayload(p1, p2))
    \/ \E s \in RoomSockets, r \in GroupRoomIds : RestartGame(s, r)
    \/ \E s \in RoomSockets, r \in GroupRoomIds : EndGame(s, r)
    \/ \E s \in RoomSockets, r \in GroupRoomIds, i \in 0..MaxIndex :
          MovesLeft(r) /\ PendingAI < MaxPendingAI /\ MakeMove(s, r, i)
    \/ \E t \in timers : TimerFire(t)
    \/ \E t \in timers : AIMove(t)

SpecAI == Init /\ [][NextAI]_vars

\* the connections that play Nine Men's Morris: the host of a room and a guest
MorrisPlayers == {SocketName(1), SocketName(2)}

\* one session of Nine Men's Morris in a room of two: the host starts it, the
\* two players send morris_move for the positions 0..MaxPosition, the turn
\* timer may fire
NextMorris ==
    \/ \E s \in MorrisPlayers : Connect(s)
    \/ \E r \in GroupRoomIds : Fresh(SocketName(1), r) /\ CreateRoom(SocketName(1), Undef, r)
    \/ \E r \in GroupRoomIds :
          Fresh(SocketName(2), r) /\ JoinRoom(SocketName(2), Undef, r) /\ Within(r, MaxSessionMembers)
    \/ \E s \in MorrisPlayers, r \in GroupRoomIds :
          /\ games[r] = NoGame
          /\ MorrisPlayers \subseteq MemberIds(r)
          /\ StartGame(s, r, "ninemenmorris", PlayersPayload(SocketName(1), SocketName(2)))
    \/ \E s \in MorrisPlayers, r \in GroupRoomIds, p \in 0..MaxPosition : MorrisMove(s, r, p)
    \/ \E t \in timers : TimerFire(t)

SpecMorris == Init /\ [][NextMorris]_vars

\* the clients of one DM_ room: each joins once, with or without a user id,
\* runs the hook, and may disconnect
NextMesh ==
    \/ \E s \in MeshClients : Connect(s)
    \/ \E s \in MeshClients, u \in UserIdInputs, r \in DMRoomIds :
          users[s] = NoUser /\ JoinRoom(s, u, r)
    \/ \E s \in MeshClients : Disconnect(s)
    \/ \E c \in MeshClients : ClientReady(c)
    \/ \E c \in MeshClients, d \in MeshClients : OnWebrtcReady(c, d)
    \/ \E c \in MeshClients, d \in MeshClients : EmitSignal(c, d)
    \/ \E c \in MeshClients, d \in MeshClients : OnSignal(c, d)
    \/ \E c \in MeshClients, d \in MeshClients : OnUserLeft(c, d)

SpecMesh == Init /\ [][NextMesh]_vars

\* the mesh with links that connect and fail: the events of the peer objects
\* and the reconnection timers
NextLinks ==
    \/ \E s \in MeshClients : Connect(s)
    \/ \E s \in MeshClients, u \in UserIdInputs, r \in DMRoomIds :
          users[s] = NoUser /\ JoinRoom(s, u, r)
    \/ \E s \in MeshClients : Disconnect(s)
    \/ \E c \in MeshClients : ClientReady(c)
    \/ \E c \in MeshClients, d \in MeshClients : OnWebrtcReady(c, d)
    \/ \E c \in MeshClients, d \in MeshClients : EmitSignal(c, d)
    \/ \E c \in MeshClients, d \in MeshClients : OnSignal(c, d)
    \/ \E c \in MeshClients, d \in MeshClients : OnUserLeft(c, d)
    \/ \E c \in MeshClients, d \in MeshClients : PeerConnect(c, d)
    \/ \E c \in MeshClients, d \in MeshClients : failures < MaxFailures /\ PeerError(c, d)
    \/ \E c \in MeshClients, d \in MeshClients : PeerClose(c, d)
    \/ \E r \in retries : RetryFire(r)
    \/ \E r \in retries : RecvRetryFire(r)

SpecLinks == Init /\ [][NextLinks]_vars

\* the ICE states an event can report
IceStates == {"connected", "disconnected", "failed"}

\* the mesh of guests with links that connect, lose and regain their
\* connection, and fail
NextHealth ==
    \/ \E s \in MeshClients : Connect(s)
    \/ \E s \in MeshClients, r \in DMRoomIds : users[s] = NoUser /\ JoinRoom(s, Undef, r)
    \/ \E c \in MeshClients : ClientReady(c)
    \/ \E c \in MeshClients, d \in MeshClients : OnWebrtcReady(c, d)
    \/ \E c \in MeshClients, d \in MeshClients : EmitSignal(c, d)
    \/ \E c \in MeshClients, d \in MeshClients : OnSignal(c, d)
    \/ \E c \in MeshClients, d \in MeshClients : PeerConnect(c, d)
    \/ \E c \in MeshClients, d \in MeshClients, to \in IceStates : IceStateChange(c, d, to)
    \/ \E c \in MeshClients, d \in MeshClients : failures < MaxFailures /\ PeerError(c, d)
    \/ \E c \in MeshClients, d \in MeshClients : PeerClose(c, d)
    \/ \E r \in retries : RetryFire(r)
    \/ \E r \in retries : RecvRetryFire(r)

SpecHealth == Init /\ [][NextHealth]_vars

\* the mesh while nobody leaves and no peer object fails
NextStay ==
    \/ \E s \in MeshClients : Connect(s)
    \/ \E s \in MeshClients, u \in UserIdInputs, r \in DMRoomIds :
          users[s] = NoUser /\ JoinRoom(s, u, r)
    \/ \E c \in MeshClients : ClientReady(c)
    \/ \E c \in MeshClients, d \in MeshClients : OnWebrtcReady(c, d)
    \/ \E c \in MeshClients, d \in MeshClients : EmitSignal(c, d)
    \/ \E c \in MeshClients, d \in MeshClients : OnSignal(c, d)

\* every event the server relayed to a connected client is delivered and
\* handled, and a peer object emits the signals it has produced
Delivery ==
    \A c \in MeshClients, d \in MeshClients :
        /\ WF_vars(OnWebrtcReady(c, d))
        /\ WF_vars(OnSignal(c, d))
        /\ WF_vars(EmitSignal(c, d))

SpecStay == Init /\ [][NextStay]_vars /\ Delivery

\* the identity registry: connections register, again and under each other's
\* user id, and disconnect
NextRegistry ==
    \/ \E s \in Sockets : Connect(s)
    \/ \E s \in Sockets, u \in SessionInputs : RegisterSession(s, u)
    \/ \E s \in Sockets : Disconnect(s)

SpecRegistry == Init /\ [][NextRegistry]_vars

\* two users with any ids open a chat with each other from their friends pages
InitChat ==
    /\ InitServer
    /\ InitMesh
    /\ userSessions = [u \in SessionUserIds |-> Undef]
    /\ \E a \in ChatIds, b \in ChatIds : chat = [NoChat EXCEPT !.a = a, !.b = b]

NextChat ==
    \/ \E p \in Parties : StartChat(p)
    \/ \E p \in Parties : JoinChat(p)

SpecChat == InitChat /\ [][NextChat]_vars

-----------------------------------------------------------------------------
(* Properties of the room registry (checked under SpecRooms) *)

\* the positions of the records of connection s / of user id u in a member list
RecordsOf(list, s) == {i \in 1..Len(list) : list[i].id = s}
RecordsOfUser(list, u) == {i \in 1..Len(list) : list[i].userId = u}

\* C1: in every room of the table the number of distinct identities in the
\* member list (userId, or the connection id of a member without userId) is at
\* most the room's maxPlayers
C1_CapacityInvariant ==
    \A r \in RoomIds :
        rooms[r] # NoRoom => Cardinality(UniqueUserIds(rooms[r])) <= rooms[r].maxPlayers

\* join_room of connection s with userId u for room r, where u has a member
\* record in r under another connection id
IsUserRejoin(s, u, r) ==
    /\ rooms[r] # NoRoom
    /\ u # Undef
    /\ \E i \in RecordsOfUser(rooms[r].users, u) : rooms[r].users[i].id # s

\* C2: a join_room with a userId that has a member record in the room under
\* another connection id leaves the length of the member list unchanged, leaves
\* exactly one record with that userId, the one of the joining connection, and
\* gives it the host flag the replaced record had
C2_RejoinIdempotent ==
    [][\A s \in Sockets, u \in UserIds, r \in RoomIds :
          (IsUserRejoin(s, u, r) /\ JoinRoom(s, u, r)) =>
             LET before == rooms[r].users
                 after == rooms'[r].users
                 old == before[CHOOSE i \in RecordsOfUser(before, u) : before[i].id # s]
             IN  /\ Len(after) = Len(before)
                 /\ Cardinality(RecordsOfUser(after, u)) = 1
                 /\ \A i \in RecordsOfUser(after, u) :
                        after[i].id = s /\ (after[i].isHost <=> old.isHost)]_vars

\* a connection whose member record was replaced by the rejoin of its user under
\* another connection id: the host flag moved to the new record
C2_Witness ==
    \E s \in Sockets, r \in RoomIds :
        /\ rooms[r] # NoRoom
        /\ conn[s] = "open"
        /\ users[s] # NoUser
        /\ users[s].roomId = r
        /\ users[s].userId # Undef
        /\ RecordsOf(rooms[r].users, s) = {}
        /\ \E i \in RecordsOfUser(rooms[r].users, users[s].userId) :
              rooms[r].users[i].isHost /\ users[s].isHost
        /\ Len(rooms[r].users) = 2

\* C3: a join_room of a connection that is already in the member list of the
\* room leaves exactly one record of that connection in the list, with the host
\* flag that connection had before, with or without a userId
C3_DuplicateJoinIdempotent ==
    [][\A s \in Sockets, u \in UserIdInputs, r \in RoomIds :
          (rooms[r] # NoRoom /\ RecordsOf(rooms[r].users, s) # {} /\ JoinRoom(s, u, r)) =>
             LET before == rooms[r].users
                 after == rooms'[r].users
             IN  /\ Cardinality(RecordsOf(after, s)) = 1
                 /\ \A i \in RecordsOf(after, s), j \in RecordsOf(before, s) :
                        after[i].isHost <=> before[j].isHost]_vars

-----------------------------------------------------------------------------
(* Properties of sessions and turn timers (checked under Spec) *)

\* game.turn, undefined for a session without turns
TurnOf(r) == Get(games[r].state, "turn")

HasOutcome(game) == HasWinner(game.state) \/ IsDraw(game.state)

\* the ids of the participants of a session
PlayerIds(game) == {game.state.players[i].id : i \in 1..Len(game.state.players)}

\* the step is a move event of connection s for room r
MoveEvent(s, r) ==
    \E i \in 0..MaxIndex : MakeMove(s, r, i) \/ Connect4Move(s, r, i) \/ MorrisMove(s, r, i)

\* the timers that act on room r: the turn timers that captured the room object
\* now in the table, and the tick intervals, which look the room up by its id
TimersOn(ts, r) == {t \in ts : t.room = r /\ (t.kind = "tick" \/ ~t.orphan)}

C6_TimerExclusivity ==
    \A r \in RoomIds : rooms[r] # NoRoom => Cardinality(TimersOn(timers, r)) <= 1

\* C7: when the turn timer armed for participant X of a two-participant
\* session without outcome fires, the other participant is recorded as the
\* winner with winReason 'timeout'; and a move event for a session that has a
\* winner leaves the session and the timers unchanged
C7_ForfeitureCorrect ==
    [][/\ \A t \in timers :
            (/\ TimerFire(t)
             /\ ~t.orphan
             /\ games[t.room] # NoGame
             /\ ~HasOutcome(games[t.room])
             /\ Len(games[t.room].state.players) = 2)
            => /\ HasWinner(games'[t.room].state)
               /\ games'[t.room].state.winner \in PlayerIds(games[t.room]) \ {t.turnPlayerId}
               /\ Get(games'[t.room].state, "winReason") = "timeout"
       /\ \A r \in RoomIds, s \in Sockets :
            (games[r] # NoGame /\ HasWinner(games[r].state) /\ MoveEvent(s, r))
            => UNCHANGED <<games, timers>>]_vars

\* C8: a move event of a connection that is not the turn-holder of the session
\* leaves the session (board, turn, phase, winner, timer handle) and the
\* outstanding timers unchanged
C8_OutOfTurnMoveNoOp ==
    [][\A r \in RoomIds, s \in Sockets :
          (games[r] # NoGame /\ TurnOf(r) # s /\ MoveEvent(s, r))
          => UNCHANGED <<games, timers>>]_vars

\* a Morris session in which a placement was accepted and both participants are
\* connected: the one who placed is not the turn-holder and may send another move
C8_Witness ==
    \E r \in RoomIds, s \in Sockets :
        /\ games[r] # NoGame
        /\ games[r].type = "ninemenmorris"
        /\ ~HasOutcome(games[r])
        /\ s \in PlayerIds(games[r])
        /\ conn[s] = "open"
        /\ TurnOf(r) # s
        /\ TurnOf(r) \in PlayerIds(games[r])
        /\ conn[TurnOf(r)] = "open"
        /\ \E i \in 0..MaxIndex : Cell(games[r].state.board, i) = s
        /\ \E t \in timers : t.h = games[r].timer /\ t.turnPlayerId = TurnOf(r)

\* connection s has a record with the host flag in the member list of room r
HostMember(s, r) ==
    /\ rooms[r] # NoRoom
    /\ \E i \in RecordsOf(rooms[r].users, s) : rooms[r].users[i].isHost

\* the step is a start_game of connection s for room r
StartEvent(s, r) ==
    \E g \in GameTypes, p1 \in Sockets, p2 \in Sockets \cup {AI} :
        StartGame(s, r, g, PlayersPayload(p1, p2))

\* C9: a start_game of a connection that is not a member of the room's list
\* with the host flag leaves the session of the room and the timers unchanged
C9_StartOnlyByHostMember ==
    [][\A r \in RoomIds, s \in Sockets :
          (conn[s] = "open" /\ users[s] # NoUser /\ ~HostMember(s, r) /\ StartEvent(s, r))
          => UNCHANGED <<games, timers>>]_vars

\* the users table says that connection s is the host of room r
HostOf(s, r) == users[s] # NoUser /\ users[s].roomId = r /\ users[s].isHost

\* C10: a restart_game or end_game for room r of a connection that is not the
\* host of room r leaves the session of the room and the timers unchanged
C10_RestartEndOnlyByHost ==
    [][\A r \in RoomIds, s \in Sockets :
          (conn[s] = "open" /\ ~HostOf(s, r) /\ ~HostMember(s, r)
             /\ (RestartGame(s, r) \/ EndGame(s, r)))
          => UNCHANGED <<games, timers>>]_vars

-----------------------------------------------------------------------------
(* Properties of the voice mesh (checked under SpecMesh) *)

\* C4: when two clients have each detected the collision (each held an
\* initiator attempt toward the other and received the other's offer), the one
\* with the smaller connection id holds a responder record for the other and
\* the one with the larger id still holds its initiator record, whatever the
\* order in which the relayed messages arrived, for as long as both stay
\* connected (a departure removes the records)
C4_GlareResolution ==
    \A a \in Sockets, b \in Sockets :
        (/\ IdLess(a, b) /\ <<a, b>> \in collided /\ <<b, a>> \in collided
         /\ conn[a] = "open" /\ conn[b] = "open") =>
            /\ peers[a][b] # <<>> /\ ~peers[a][b][1].isInitiator
            /\ peers[b][a] # <<>> /\ peers[b][a][1].isInitiator

\* both sides of a link detected the collision and every message between the
\* two has been handled
C4_Witness ==
    \E a \in Sockets, b \in Sockets :
        /\ IdLess(a, b)
        /\ <<a, b>> \in collided /\ <<b, a>> \in collided
        /\ chan[a][b] = <<>> /\ chan[b][a] = <<>>
        /\ peers[a][b] # <<>> /\ peers[a][b][1].out = <<>>
        /\ peers[b][a] # <<>> /\ peers[b][a][1].out = <<>>

-----------------------------------------------------------------------------
(* Further properties of the room registry (checked under SpecRooms) *)

\* C11: when a connection that has a record with the host flag in the member
\* list of its room disconnects and the room stays in the table, the first
\* member of the list has the host flag and room.hostId is its connection id
C11_HostMigration ==
    [][\A s \in Sockets, r \in RoomIds :
          (/\ users[s] # NoUser
           /\ users[s].roomId = r
           /\ HostMember(s, r)
           /\ Disconnect(s)
           /\ rooms'[r] # NoRoom)
          => LET after == rooms'[r].users
             IN  /\ after[1].isHost
                 /\ rooms'[r].hostId = after[1].id]_vars

\* C16: a join_room for a DM_ id that is not in the table puts a room with
\* capacity 20 and privacy enabled in the table, with the joiner as its only
\* member, and sends no error; and whenever a step gives a room without members
\* (absent, or just created) its first member, that member has the host flag
C16_LazyDMRoomAndFirstHost ==
    [][/\ \A s \in Sockets, u \in UserIdInputs, r \in DMRoomIds :
            (rooms[r] = NoRoom /\ JoinRoom(s, u, r)) =>
                /\ rooms'[r] # NoRoom
                /\ rooms'[r].maxPlayers = 20
                /\ rooms'[r].isPrivate
                /\ rooms'[r].users = <<ChatUser(s, u, TRUE)>>
                /\ users'[s] = UserEntry(r, u, TRUE)
                /\ errors' = {}
       /\ \A r \in RoomIds :
            (rooms[r] = NoRoom /\ rooms'[r] # NoRoom) =>
                /\ Len(rooms'[r].users) = 1
                /\ rooms'[r].users[1].isHost]_vars

\* a DM_ room that was created by a join: its only member is the host
C16_Witness ==
    \E r \in DMRoomIds, s \in Sockets :
        /\ rooms[r] # NoRoom
        /\ rooms[r].maxPlayers = 20
        /\ Len(rooms[r].users) = 1
        /\ rooms[r].users[1].id = s
        /\ rooms[r].users[1].isHost
        /\ users[s] # NoUser
        /\ users[s].roomId = r

\* the join of connection s with userId u to room r brings an identity the
\* member list does not have while the number of identities is at capacity
NewIdentityAtCapacity(s, u, r) ==
    /\ rooms[r] # NoRoom
    /\ (IF u # Undef THEN u ELSE s) \notin UniqueUserIds(rooms[r])
    /\ Cardinality(UniqueUserIds(rooms[r])) >= rooms[r].maxPlayers

\* the step admitted connection s to room r: its record is the last of the list
JoinAdmitted(s, r) ==
    /\ rooms'[r] # NoRoom
    /\ Len(rooms'[r].users) > 0
    /\ rooms'[r].users[Len(rooms'[r].users)].id = s
    /\ users'[s] # NoUser
    /\ users'[s].roomId = r

\* C17: every join_room either admits the joiner and sends no error, or is
\* rejected: then exactly one error event is sent, to the joining connection,
\* and the room table, every member list and the users table are unchanged.
\* The error is 'Room not found' exactly for an id that is not in the table
\* and is not a DM_ id; otherwise it is 'Room is full', and then the joiner
\* brings a new identity to a room whose number of identities is at capacity.
C17_RejectedJoin ==
    [][\A s \in Sockets, u \in UserIdInputs, r \in RoomIds :
          JoinRoom(s, u, r) =>
             IF rooms[r] = NoRoom /\ r \notin DMRoomIds
             THEN /\ errors' = {[to |-> s, text |-> "Room not found"]}
                  /\ UNCHANGED <<rooms, users>>
             ELSE \/ JoinAdmitted(s, r) /\ errors' = {}
                  \/ /\ errors' = {[to |-> s, text |-> "Room is full"]}
                     /\ NewIdentityAtCapacity(s, u, r)
                     /\ UNCHANGED <<rooms, users>>]_vars

\* a connection outside a full room was just told 'Room is full'
C17_Witness ==
    \E s \in Sockets, r \in RoomIds :
        /\ errors = {[to |-> s, text |-> "Room is full"]}
        /\ users[s] = NoUser
        /\ rooms[r] # NoRoom
        /\ Cardinality(UniqueUserIds(rooms[r])) >= rooms[r].maxPlayers

-----------------------------------------------------------------------------
(* Further properties of sessions (checked under Spec) *)

\* C12: no room of the table has an empty member list, a room that is not in
\* the table has no session, and every outstanding timer belongs to a room
\* object that is in the table
C12_EmptyRoomRemoved ==
    /\ \A r \in RoomIds :
          IF rooms[r] = NoRoom THEN games[r] = NoGame ELSE Len(rooms[r].users) > 0
    /\ \A t \in timers : rooms[t.room] # NoRoom /\ ~t.orphan

\* C13: whenever a room has a session, the connection id of every human
\* participant of the session is in the member list of the room
C13_SessionWithinMembership ==
    \A r \in RoomIds :
        games[r] # NoGame => PlayerIds(games[r]) \ {AI} \subseteq MemberIds(r)

\* the restart_game of connection s for room r passes the permission check
RestartAccepted(s, r) == MayRestartOrEnd(s, r) /\ games[r] # NoGame /\ RestartGame(s, r)

\* the connection id under which the user of participant id old is now in the
\* member list of room r: another connection with the user id of old
CurrentIdsOf(old, r) ==
    {rooms[r].users[i].id : i \in {j \in 1..Len(rooms[r].users) :
        /\ UserOf(old) # Undef
        /\ rooms[r].users[j].userId = UserOf(old)
        /\ rooms[r].users[j].id # old}}

\* C14: after a restart_game that passes the permission check, every
\* participant whose user is in the member list under a new connection id has
\* that connection id, the two participants have different ids, and in a
\* session with turns the turn and the timer are the first participant's
C14_RestartRemaps ==
    [][\A s \in Sockets, r \in RoomIds :
          RestartAccepted(s, r) =>
             LET before == games[r].state.players
                 after == games'[r].state.players
             IN  /\ \A i \in 1..Len(before) :
                       \A new \in CurrentIdsOf(before[i].id, r) : after[i].id = new
                 /\ after[1].id # after[2].id
                 /\ games[r].type \in {"tictactoe", "ninemenmorris", "connect4"} =>
                       /\ Get(games'[r].state, "turn") = after[1].id
                       /\ \E t \in timers' :
                             t.h = games'[r].timer /\ t.turnPlayerId = after[1].id]_vars

-----------------------------------------------------------------------------
(* Properties of the friends page (checked under SpecChat) *)

\* C15: the room id a party derives for the chat with its friend does not
\* depend on which of the two derives it: once both parties have opened the
\* chat their pages have the same room id, and once both have joined, their
\* joins resolved to one room record, keyed by a DM_ id
C15_DMRoomIdOrderIndependent ==
    /\ DeriveRoomId(chat.a, chat.b) = DeriveRoomId(chat.b, chat.a)
    /\ (chat.url["A"] # <<>> /\ chat.url["B"] # <<>>) => chat.url["A"] = chat.url["B"]
    /\ \A p \in Parties : chat.url[p] # <<>> => ~chat.notFound[p]
    /\ (chat.joined["A"] # <<>> /\ chat.joined["B"] # <<>>) =>
          /\ chat.joined["A"] = chat.joined["B"]
          /\ StartsWithDM(chat.joined["A"])

\* both parties joined, and the party that sorts second is the one named first
C15_Witness ==
    /\ chat.joined["A"] # <<>>
    /\ chat.joined["B"] # <<>>
    /\ StrLess(chat.b, chat.a)
    /\ \E i \in 1..Len(chat.a) : chat.a[i] \in 97..122

-----------------------------------------------------------------------------
(* Properties of the identity registry (checked under SpecRegistry) *)

\* C18: a register_session with a user id maps that user id to the registering
\* connection and leaves every other mapping as it was; a register_session
\* without a user id or with the empty one changes no mapping; a disconnect
\* changes no mapping; and no step removes a mapping
C18_RegistryLastWriteWins ==
    [][/\ \A s \in Sockets, u \in SessionInputs :
            RegisterSession(s, u) =>
                IF u \in SessionUserIds
                THEN /\ userSessions'[u] = s
                     /\ \A v \in SessionUserIds \ {u} : userSessions'[v] = userSessions[v]
                ELSE userSessions' = userSessions
       /\ \A s \in Sockets : Disconnect(s) => userSessions' = userSessions
       /\ \A u \in SessionUserIds : userSessions[u] # Undef => userSessions'[u] # Undef]_vars

\* a user id was registered by two connections in turn and the second, whose
\* mapping stands, has disconnected
C18_Witness ==
    \E u \in SessionUserIds :
        /\ userSessions[u] = SocketName(2)
        /\ conn[SocketName(1)] = "open"
        /\ conn[SocketName(2)] = "closed"
        /\ \E v \in SessionUserIds \ {u} : userSessions[v] = SocketName(1)

-----------------------------------------------------------------------------
(* Further properties of the voice mesh (checked under SpecMesh) *)

\* C19: a signal that connection c sends for target d is delivered, unchanged
\* and as coming from c, to d and to nobody else when d is connected; when d is
\* not connected nothing is delivered; in both cases no error event is sent and
\* nothing of the server's state changes
C19_SignalRelay ==
    [][\A c \in Sockets, d \in Sockets :
          EmitSignal(c, d) =>
             LET signal == Head(peers[c][d][1].out)
             IN  /\ \A a \in Sockets, b \in Sockets :
                       chan'[a][b] = IF a = c /\ b = d /\ conn[d] = "open"
                                     THEN chan[a][b] \o <<signal>>
                                     ELSE chan[a][b]
                 /\ errors' = {}
                 /\ UNCHANGED serverVars]_vars

\* the offer of c for d was dropped: d announced itself and disconnected, c
\* sent all its signals, none is in flight, and d never got one
C19_Witness ==
    \E c \in Sockets, d \in Sockets :
        /\ conn[c] = "open"
        /\ conn[d] = "closed"
        /\ d \in ready
        /\ peers[c][d] # <<>>
        /\ peers[c][d][1].isInitiator
        /\ peers[c][d][1].out = <<>>
        /\ chan[c][d] = <<>>
        /\ peers[d][c] = <<>>

\* connection d is connected and has a record in the member list of the room
\* connection c is in
MemberOfRoomOf(d, c) ==
    /\ conn[d] = "open"
    /\ users[c] # NoUser
    /\ d \in MemberIds(users[c].roomId)

\* C20: the webrtc_ready of connection c is delivered to the other current
\* members of the room of c and to nobody else; a recipient without a record
\* for c creates one as initiator, a recipient with a record for c creates
\* nothing; and c answers the offer of such a recipient as responder
C20_ReadyBroadcast ==
    [][/\ \A c \in Sockets :
            ClientReady(c) =>
                \A d \in Sockets :
                    chan'[c][d] = IF d # c /\ MemberOfRoomOf(d, c)
                                  THEN chan[c][d] \o <<"ready">>
                                  ELSE chan[c][d]
       /\ \A c \in Sockets, d \in Sockets :
            OnWebrtcReady(c, d) =>
                IF peers[c][d] = <<>>
                THEN peers' = [peers EXCEPT ![c][d] = <<InitiatorPeer>>]
                ELSE peers' = peers
       /\ \A c \in Sockets, d \in Sockets :
            (OnSignal(c, d) /\ Head(chan[d][c]) = "offer" /\ peers[c][d] = <<>> /\ c \in ready)
            => ~peers'[c][d][1].isInitiator]_vars

-----------------------------------------------------------------------------
(* Host uniqueness and departures of superseded connections (SpecRooms) *)

\* the positions of the member list of room r that carry the host flag
HostRecords(r) == {i \in 1..Len(rooms[r].users) : rooms[r].users[i].isHost}

\* C28: every room of the table with a member has exactly one member record
\* with the host flag, and room.hostId is the connection id of that record
C28_HostUniqueness ==
    \A r \in RoomIds :
        (rooms[r] # NoRoom /\ Len(rooms[r].users) > 0)
        => /\ Cardinality(HostRecords(r)) = 1
           /\ \A i \in HostRecords(r) : rooms[r].hostId = rooms[r].users[i].id

\* connection s has no record in the member list of any room
InNoMemberList(s) ==
    \A r \in RoomIds :
        rooms[r] = NoRoom \/ \A i \in 1..Len(rooms[r].users) : rooms[r].users[i].id # s

\* C29: the disconnect of a connection that is in no member list leaves every
\* room as it was: member lists, host flags, hostId, and the session of the
\* room with its timer
C29_SupersededDisconnectFrame ==
    [][\A s \in Sockets :
          (InNoMemberList(s) /\ Disconnect(s))
          => UNCHANGED <<rooms, games, timers>>]_vars

-----------------------------------------------------------------------------
(* Turn timers and the scripted opponent (checked under SpecAI) *)

\* the turn timers outstanding for the room object now in the table under r
TurnTimersOn(ts, r) == {t \in ts : t.room = r /\ t.kind = "turn" /\ ~t.orphan}

\* room r has a turn session without outcome
TurnSessionOpen(r) ==
    /\ games[r] # NoGame
    /\ "turn" \in DOMAIN games[r].state
    /\ ~HasOutcome(games[r])

\* the participant after the one with id s in the list of participants
NextParticipant(game, s) ==
    game.state.players[(FindIndex(game.state.players, LAMBDA p : p.id = s)
                           % Len(game.state.players)) + 1].id

\* C25: whenever a turn session has no outcome and its turn-holder is a human
\* participant, exactly one turn timer is outstanding for the room, it is the
\* handle the session holds and it was armed for the turn-holder; and after an
\* accepted move that leaves the session without outcome, the turn is the next
\* participant and, when that is a human, the one timer is armed for them
C25_TimerFollowsTurn ==
    /\ [](\A r \in RoomIds :
            (TurnSessionOpen(r) /\ TurnOf(r) # AI)
            => \E t \in timers :
                  /\ TurnTimersOn(timers, r) = {t}
                  /\ t.h = games[r].timer
                  /\ t.turnPlayerId = TurnOf(r))
    /\ [][\A r \in RoomIds, s \in Sockets, i \in 0..MaxIndex :
            (/\ MoveAccepted(s, r, i)
             /\ MakeMove(s, r, i)
             /\ ~HasOutcome(games'[r]))
            => /\ games'[r].state.turn = NextParticipant(games[r], s)
               /\ games'[r].state.turn # AI
                  => TurnTimersOn(timers', r)
                        = {TurnTimer(games'[r].timer, r, games'[r].state.turn)}]_vars

\* C26: whenever the turn-holder of a session without outcome is the scripted
\* opponent, no turn timer is outstanding for the room; and no turn timer that
\* changes a session was armed for the scripted opponent, so a timeout never
\* makes it the loser
C26_NoTimeoutForAI ==
    /\ [](\A r \in RoomIds :
            (TurnSessionOpen(r) /\ TurnOf(r) = AI) => TurnTimersOn(timers, r) = {})
    /\ [][\A t \in timers :
            (TimerFire(t) /\ games' # games)
            => /\ t.turnPlayerId # AI
               /\ games'[t.room].state.winner # t.turnPlayerId]_vars

\* a human has placed a mark, the turn is the scripted opponent's, its delayed
\* move is outstanding and no turn timer is
C26_Witness ==
    \E r \in RoomIds :
        /\ TurnSessionOpen(r)
        /\ TurnOf(r) = AI
        /\ Marks(games[r].state.board) = 1
        /\ games[r].timer # 0
        /\ \E t \in timers : t.kind = "ai" /\ t.room = r /\ timers = {t}

\* C27: a timer callback changes a session only when the session still waits
\* for it: a turn timer only as the handle the session holds, armed for the
\* current turn-holder, and the delayed move of the scripted opponent only
\* when the turn is the scripted opponent's
C27_NoTimerOnReplacedSession ==
    [][\A t \in timers :
          /\ (TimerFire(t) /\ games' # games)
             => (t.h = games[t.room].timer /\ t.turnPlayerId = TurnOf(t.room))
          /\ (AIMove(t) /\ games' # games)
             => TurnOf(t.room) = AI]_vars

-----------------------------------------------------------------------------
(* Links that fail and are renegotiated (checked under SpecLinks) *)

\* the record of c for d holds a peer object that is not destroyed
LinkTo(c, d) == peers[c][d] # <<>> /\ ~peers[c][d][1].destroyed

\* the record of client r.c for r.d holds another attempt than the one whose
\* timer r is, and its state is st
OtherAttemptIn(r, st) ==
    /\ peers[r.c][r.d] # <<>>
    /\ ~r.same
    /\ peers[r.c][r.d][1].connectionState = st

\* C22: when the retry timer of a failed initiator attempt fires, the timer is
\* spent; if the record for that peer holds another attempt in state
\* 'connecting' nothing else changes, and in every other case (the failed
\* attempt itself, no record, another attempt in any other state) the one
\* record for that peer is a fresh initiator that has sent nothing yet (which
\* state is recorded for it when it replaced a live attempt is the subject of
\* C32)
C22_InitiatorRetry ==
    [][\A r \in retries :
          (r.kind = "init" /\ RetryFire(r))
          => /\ r \notin retries'
             /\ IF OtherAttemptIn(r, "connecting")
                THEN peers' = peers
                ELSE /\ Len(peers'[r.c][r.d]) = 1
                     /\ InState(peers'[r.c][r.d][1], "connecting") = InitiatorPeer
                     /\ \A c \in Sockets, d \in Sockets :
                           <<c, d>> # <<r.c, r.d>> => peers'[c][d] = peers[c][d]]_vars

\* one attempt has failed, its timer has fired, and the record of c for d is
\* an initiator that has not sent its offer yet, while d holds no record for c:
\* the retry has made it
C22_Witness ==
    \E c \in MeshClients, d \in MeshClients :
        /\ failures = 1
        /\ retries = {}
        /\ conn[c] = "open" /\ conn[d] = "open"
        /\ peers[c][d] = <<InitiatorPeer>>
        /\ peers[d][c] = <<>>

\* C30: a retry timer that fires when the record for its peer holds another
\* attempt that is not destroyed and has reached 'connected' leaves that
\* record as it is
C30_RetryKeepsConnectedReplacement ==
    [][\A r \in retries :
          (/\ r.kind = "init"
           /\ OtherAttemptIn(r, "connected")
           /\ LinkTo(r.c, r.d)
           /\ RetryFire(r))
          => peers'[r.c][r.d] = peers[r.c][r.d]]_vars

\* C23: once x has disconnected and c has handled everything the server sent
\* it on behalf of x (the user_left notice last) and holds no record for x, no
\* step gives c a record for x
C23_NoLinkAfterLeave ==
    [][\A c \in MeshClients, x \in MeshClients :
          (conn[x] = "closed" /\ chan[x][c] = <<>> /\ peers[c][x] = <<>>)
          => peers'[c][x] = <<>>]_vars

\* C21: when the retry timer of a failed responder attempt of c for d fires
\* and d is connected, the server relays the request to d
C21_ReinitiateRelayed ==
    [][\A r \in retries :
          (r.kind = "recv" /\ conn[r.d] = "open" /\ RecvRetryFire(r))
          => chan'[r.c][r.d] = Append(chan[r.c][r.d], "reconnect")]_vars

-----------------------------------------------------------------------------
(* The full mesh (checked under SpecStay) *)

\* C24: when two clients of the room have both announced readiness (and
\* registered their handlers), in whatever order, then eventually each holds a
\* live peer object for the other, exactly one of the two made as initiator,
\* and each object has the description of the other side
C24_FullMesh ==
    \A a \in MeshClients, b \in MeshClients :
        a # b => ((a \in ready /\ b \in ready) ~> Negotiated(a, b))

\* both announcements crossed, each client made an initiator, the collision
\* was detected, and the two are linked with one initiator
C24_Witness ==
    \E a \in MeshClients, b \in MeshClients :
        /\ a # b
        /\ {a, b} \subseteq ready
        /\ <<a, b>> \in collided
        /\ Negotiated(a, b)

-----------------------------------------------------------------------------
(* The records and the recorded state of a link (checked under SpecLinks) *)

\* C33: a client holds at most one record for each peer connection id, across
\* ready announcements, incoming signals, surrenders, retries and departures
C33_OneRecordPerPeer ==
    \A c \in Sockets, d \in Sockets : Len(peers[c][d]) <= 1

\* a client that detected the collision has surrendered: its initiator record
\* was removed and its one record for the peer is the responder that replaced it
C33_Witness ==
    \E c \in MeshClients, d \in MeshClients :
        /\ <<c, d>> \in collided
        /\ Len(peers[c][d]) = 1
        /\ ~peers[c][d][1].isInitiator
        /\ peers[c][d][1].remote

\* the state recorded by c for its link to d ("none" without a record)
Recorded(c, d) == IF peers[c][d] = <<>> THEN "none" ELSE peers[c][d][1].connectionState

\* C31: the state recorded for a link that is 'failed', or 'disconnected'
\* because its own peer object closed, does not become 'connected'; it leaves
\* these two states only when a record of a fresh attempt is pushed (a record
\* that is 'disconnected' by an event of the attempt it replaced is the subject
\* of C32) (checked under SpecHealth)
C31_LinkLifecycle ==
    [][\A c \in MeshClients, d \in MeshClients :
          (\/ Recorded(c, d) = "failed"
           \/ Recorded(c, d) = "disconnected" /\ peers[c][d][1].destroyed)
          => Recorded(c, d)' \in {"failed", "disconnected", "connecting", "none"}]_vars

\* C32: a handler that replaces the record of a peer by the record of a new
\* attempt leaves the new record in the state it pushed it with, 'connecting':
\* no event of the attempt it tore down changes it (checked under SpecHealth)
C32_StateOfCurrentAttempt ==
    [][\A c \in MeshClients, d \in MeshClients :
          (/\ peers[c][d] # <<>>
           /\ (OnSignal(c, d) \/ \E r \in retries : r.c = c /\ r.d = d /\ RetryFire(r))
           /\ peers'[c][d] # <<>>
           /\ InState(peers'[c][d][1], "connecting") \in {InitiatorPeer} \cup
                 {ResponderPeer(kind) : kind \in {"offer", "answer", "candidate"}})
          => Recorded(c, d)' = "connecting"]_vars

-----------------------------------------------------------------------------
\* One room per connection

\* the rooms of the table whose member list holds a record of connection s
RoomsOf(s) == {r \in RoomIds : rooms[r] # NoRoom /\ RecordsOf(rooms[r].users, s) # {}}

\* C34: a connection has a record in the member list of at most one room, and
\* a room of the table has a member whose connection is still open
\* (checked under SpecRooms)
C34_OneRoomPerConnection ==
    /\ \A s \in Sockets : Cardinality(RoomsOf(s)) <= 1
    /\ \A r \in RoomIds :
          rooms[r] # NoRoom =>
              \E i \in 1..Len(rooms[r].users) : conn[rooms[r].users[i].id] = "open"

-----------------------------------------------------------------------------
\* Moves of one game type against a session of another

\* C35: make_move against a session that is not tic-tac-toe, morris_move
\* against a session that is not Nine Men's Morris and connect4_move against a
\* session that is not Connect 4 change neither the session (its board, its
\* turn, its timer handle) nor the timers that are armed (checked under Spec)
C35_ForeignMoveFrame ==
    [][\A s \in Sockets, r \in RoomIds :
          games[r] # NoGame =>
             /\ (games[r].type # "tictactoe" /\ \E i \in 0..MaxIndex : MakeMove(s, r, i))
                   => UNCHANGED <<games, timers>>
             /\ (games[r].type # "ninemenmorris" /\ \E p \in 0..MaxIndex : MorrisMove(s, r, p))
                   => UNCHANGED <<games, timers>>
             /\ (games[r].type # "connect4" /\ \E c \in 0..MaxIndex : Connect4Move(s, r, c))
                   => UNCHANGED <<games, timers>>]_vars

-----------------------------------------------------------------------------
\* The outcome of a turn session

TurnTypes == {"tictactoe", "ninemenmorris", "connect4"}

\* the session of room r is a turn session with a winner or a draw
Decided(r) ==
    /\ games[r] # NoGame
    /\ games[r].type \in TurnTypes
    /\ (HasWinner(games[r].state) \/ IsDraw(games[r].state))

\* the step is the start_game, restart_game or end_game of some connection for room r
HostCommand(r) ==
    \/ \E s \in Sockets : RestartGame(s, r) \/ EndGame(s, r)
    \/ \E s \in Sockets, g \in GameTypes, p1 \in Sockets, p2 \in Sockets \cup {AI} :
          StartGame(s, r, g, PlayersPayload(p1, p2))

\* C36: a step that leaves a room its session and changes the winner, the draw
\* flag, the board or the turn of a turn session that has a winner or a draw is
\* a start_game, restart_game or end_game for the room
\* (checked under Spec)
C36_TerminalOutcomeStable ==
    [][\A r \in RoomIds :
          (/\ Decided(r)
           /\ games'[r] # NoGame
           /\ ~(/\ games'[r].state.winner = games[r].state.winner
                /\ IsDraw(games'[r].state) = IsDraw(games[r].state)
                /\ games'[r].state.board = games[r].state.board
                /\ games'[r].state.turn = games[r].state.turn))
          => HostCommand(r)]_vars

\* a turn session has a winner while the player whose turn it is is connected
\* and the cell of a move it can send is empty
C36_Witness ==
    \E r \in RoomIds :
        /\ Decided(r)
        /\ games[r].state.turn \in Sockets
        /\ conn[games[r].state.turn] = "open"
        /\ games[r].type = "tictactoe"
        /\ \E i \in 0..MaxIndex : games[r].state.board[i] = Null

-----------------------------------------------------------------------------
\* Nine Men's Morris (checked under SpecMorris)

\* the session of room r is Nine Men's Morris without a winner and s holds the turn
MorrisTurn(s, r) ==
    /\ games[r] # NoGame
    /\ games[r].type = "ninemenmorris"
    /\ ~HasWinner(games[r].state)
    /\ games[r].state.turn = s

OpponentOf(s) == IF s = SocketName(1) THEN SocketName(2) ELSE SocketName(1)

\* the piece at position q is one of three of the same player along a line
Protected(board, q) ==
    /\ board[q] # Null
    /\ \E k \in 1..Len(Mills) :
          q \in Range(Mills[k]) /\ \A x \in Range(Mills[k]) : board[x] = board[q]

\* position q holds a piece of player o that the rule lets the other player
\* remove: it is in no mill, or every piece of o is in a mill
Removable(board, q, o) ==
    /\ Cell(board, q) = o
    /\ (~Protected(board, q) \/ \A x \in DOMAIN board : board[x] = o => Protected(board, x))

\* C37: in the removing phase a morris_move of the player whose turn it is
\* removes the piece at the position exactly when it is a piece of the
\* opponent that is in no mill, or every piece of the opponent is in a mill;
\* otherwise board, piece counts, phase and turn stay as they were
C37_MillProtection ==
    [][\A s \in MorrisPlayers, r \in GroupRoomIds, q \in 0..MaxPosition :
          (/\ MorrisTurn(s, r)
           /\ games[r].state.phase = "removing"
           /\ MorrisMove(s, r, q))
          => IF Removable(games[r].state.board, q, OpponentOf(s))
             THEN /\ games'[r].state.board = [games[r].state.board EXCEPT ![q] = Null]
                  /\ games'[r].state.piecesOnBoard =
                        [games[r].state.piecesOnBoard EXCEPT ![OpponentOf(s)] = @ - 1]
             ELSE /\ games'[r].state.board = games[r].state.board
                  /\ games'[r].state.piecesOnBoard = games[r].state.piecesOnBoard
                  /\ games'[r].state.piecesPlaced = games[r].state.piecesPlaced
                  /\ games'[r].state.phase = games[r].state.phase
                  /\ games'[r].state.turn = games[r].state.turn]_vars

\* a removal is due while the opponent has a piece in a mill and one outside
C37_Witness ==
    \E s \in MorrisPlayers, r \in GroupRoomIds :
        /\ MorrisTurn(s, r)
        /\ games[r].state.phase = "removing"
        /\ \E q \in 0..MaxPosition :
              games[r].state.board[q] = OpponentOf(s) /\ Protected(games[r].state.board, q)
        /\ \E q \in 0..MaxPosition : Removable(games[r].state.board, q, OpponentOf(s))

\* C38: a morris_move that moves a piece of the player whose turn it is to a
\* position that is not adjacent to the one it came from is made by a player
\* with exactly 3 pieces on the board
C38_FlyingOnlyWithThree ==
    [][\A s \in MorrisPlayers, r \in GroupRoomIds, q \in 0..MaxPosition :
          (/\ MorrisTurn(s, r)
           /\ games[r].state.phase \in {"moving", "flying"}
           /\ MorrisMove(s, r, q)
           /\ games[r].state.board[q] = Null
           /\ games'[r].state.board[q] = s
           /\ q \notin Adjacency[games[r].state.selectedPosition + 1])
          => games[r].state.piecesOnBoard[s] = 3]_vars

\* C39: whenever a session is in the removing phase, the handler accepts the
\* removal of at least one piece from the player whose turn it is: the phase
\* is entered only with a removable piece of the opponent on the board
C39_NeverStuckRemoving ==
    \A r \in GroupRoomIds :
        (/\ games[r] # NoGame
         /\ games[r].type = "ninemenmorris"
         /\ games[r].state.phase = "removing")
        => \E q \in 0..MaxPosition :
              /\ Removable(games[r].state.board, q, OpponentOf(games[r].state.turn))
              /\ MorrisPhase(games[r].state, games[r].state.turn,
                             OpponentOf(games[r].state.turn), q).state.board
                    # games[r].state.board

\* a removal is due while every piece of the opponent is in a mill, so that
\* only the exception of the rule lets the player remove one
C39_Witness ==
    \E s \in MorrisPlayers, r \in GroupRoomIds :
        /\ MorrisTurn(s, r)
        /\ games[r].state.phase = "removing"
        /\ games[r].state.millFormed
        /\ \A q \in 0..23 :
              games[r].state.board[q] = OpponentOf(s) => Protected(games[r].state.board, q)

\* player o has a move: with exactly 3 pieces any empty position, otherwise
\* an empty position adjacent to one of its pieces
CanMove(st, o) ==
    IF st.piecesOnBoard[o] = 3
    THEN \E x \in 0..23 : st.board[x] = Null
    ELSE \E x \in 0..23 :
            st.board[x] = o /\ \E y \in Adjacency[x + 1] : st.board[y] = Null

\* no turn timer of room r is armed
TimerCancelled(r) == \A t \in timers : ~(t.room = r /\ t.kind = "turn")

\* a morris_move that changed the board and left the session outside the
\* placing and removing phases records the mover as winner exactly when the
\* opponent has fewer than 3 pieces, a draw by stalemate exactly when the
\* opponent has 3 or more pieces and no move, and cancels the timer with either
C40_OutcomeOfMove ==
    [][\A s \in MorrisPlayers, r \in GroupRoomIds, q \in 0..MaxPosition :
          (/\ MorrisTurn(s, r)
           /\ MorrisMove(s, r, q)
           /\ games'[r].state.board # games[r].state.board
           /\ games'[r].state.phase \notin {"placing", "removing"})
          => LET st == games'[r].state
                 few == st.piecesOnBoard[OpponentOf(s)] < 3
             IN  /\ st.winner = s <=> few
                 /\ (st.winner = "draw" /\ Get(st, "winReason") = "stalemate")
                       <=> (~few /\ ~CanMove(st, OpponentOf(s)))
                 /\ st.winner \in {s, "draw", Null}
                 /\ st.winner # Null => TimerCancelled(r)']_vars

\* C40: a morris_move that left the board as it was (the selection of a piece,
\* a rejected click) records no outcome; the outcome of a move that changed
\* the board is the subject of C40_OutcomeOfMove
C40_NoOutcomeWithoutMove ==
    [][\A s \in MorrisPlayers, r \in GroupRoomIds, q \in 0..MaxPosition :
          (/\ MorrisTurn(s, r)
           /\ MorrisMove(s, r, q)
           /\ games'[r].state.board = games[r].state.board)
          => games'[r].state.winner = Null]_vars

=============================================================================
